---- MODULE Spec2Model ----
(***************************************************************************)
(* State-machine model of the health dashboard backend: the streaming XML  *)
(* ingester (src/src/parser.rs), the SQLite tables it writes, and the      *)
(* ingestion job registry of the HTTP shell (src/src/main.rs).             *)
(*                                                                         *)
(* Text is modelled as a sequence of tokens (a token stands for a run of   *)
(* characters), so concatenation is \o and SHA-256 is taken to be          *)
(* injective on the concatenated bytes.                                    *)
(***************************************************************************)
EXTENDS Integers, Sequences, FiniteSets, TLC

VARIABLES
    manifest,       \* the Manifest shared read-only after init_db
    file,           \* the export file: the XML events the reader will yield
    caller,         \* "handler": POST /ingest; "direct": parse_and_ingest called directly
    run,            \* number of ingestions started so far (job id of the current one)
    pc,             \* position of the ingestion task
    pos,            \* index of the next XML event the reader yields
    table_buffers,  \* table name -> staged DataPoints
    total_count,    \* parse_and_ingest's running total
    final,          \* TRUE while the flush in progress is the one after the loop
    ftab,           \* table whose records the flush is iterating, or None
    fidx,           \* index of the next record of ftab to insert
    txdb,           \* the open transaction's view of the tables, or NoTx
    db,             \* committed tables: table name -> sequence of rows
    error,          \* the error parse_and_ingest returned ("" when none)
    jobs,           \* AppState.jobs: job id -> JobStatus
    tasks,          \* spawned progress-update tasks that have not run yet
    reported,       \* history: the values passed to on_progress in this run
    staged,         \* history: DataPoints pushed to a buffer in this run
    logged,         \* history: the reader's Err arm has logged "Error at position" in this run
    flushing,       \* history: the last flush of this run (NoFlush before the first)
    results,        \* history: run -> Outcome of the runs that have returned
    schema,         \* the database's tables: table name -> its column names, in order
    folder,         \* the external folders: the ECG and GPX files found by read_dir
    ext,            \* committed rows of the external tables (ECG recordings, route points)
    scans,          \* the run_external_import calls: scan id -> its position and locals
    call            \* the init_db or query-layer call in progress: position and locals

vars == <<manifest, file, caller, run, pc, pos, table_buffers, total_count, final,
          ftab, fidx, txdb, db, error, jobs, tasks, reported, staged, logged, flushing,
          results, schema, folder, ext, scans, call>>

\* What an ingestion leaves alone: the schema, the external importer, the query layer.
restVars == <<schema, folder, ext, scans, call>>

\* What the importer, init_db and the query layer leave alone: the ingestion's state.
ingestVars == <<file, caller, run, pc, pos, table_buffers, total_count, final, ftab, fidx,
                txdb, error, jobs, tasks, reported, staged, logged, flushing, results>>

----------------------------------------------------------------------------
(* Bounds of the model *)

MaxFileLen == 3
MaxBatch == 2
MaxRuns == 2
MaxRows == 2
MaxPoints == 2
MaxFiles == 2
MaxHour == 3
MaxOffset == 2
MaxSamples == 4

----------------------------------------------------------------------------
(* Text, Option and dates *)

None == "None"

Str(s) == <<s>>

Empty == <<>>

\* A timestamp "YYYY-MM-DD HH:MM:SS +/-HHMM": wall-clock hour, sign and hours of the offset.
HkDate(clock, sign, off) == <<"hk", ToString(clock), sign, ToString(off)>>

\* DateTime::to_rfc3339 of a UTC instant: "...T<hour>:00:00+00:00".
to_rfc3339(utc) == <<"rfc3339", ToString(utc)>>

IsNat(tok) == \E n \in 0..23 : ToString(n) = tok

ToNat(tok) == CHOOSE n \in 0..23 : ToString(n) = tok

\* DateTime::parse_from_str(input, "%Y-%m-%d %H:%M:%S %z"): the instant in UTC, or None.
parse_from_str(input) ==
    IF /\ Len(input) = 4
       /\ input[1] = "hk"
       /\ IsNat(input[2])
       /\ input[3] \in {"+", "-"}
       /\ IsNat(input[4])
    THEN [ok |-> TRUE,
          utc |-> IF input[3] = "+" THEN ToNat(input[2]) - ToNat(input[4])
                                    ELSE ToNat(input[2]) + ToNat(input[4])]
    ELSE [ok |-> FALSE, utc |-> 0]

\* A faulty variant of normalize_date, for contrast: the wall clock is rendered as it
\* is written, the offset dropped.
normalize_date_wall_clock(input) ==
    IF parse_from_str(input).ok THEN to_rfc3339(ToNat(input[2])) ELSE input

normalize_date(input) ==
    IF parse_from_str(input).ok THEN to_rfc3339(parse_from_str(input).utc) ELSE input

----------------------------------------------------------------------------
(* Manifest *)

ColumnDefinition(field_name, hk_identifier, hk_attribute, is_primary_key, extraction_source) ==
    [field_name |-> field_name, hk_identifier |-> hk_identifier,
     hk_attribute |-> hk_attribute, is_primary_key |-> is_primary_key,
     extraction_source |-> extraction_source]

DefaultBatchSize == 5000

\* The manifest of tests/integration_tests.rs: one table of two record columns.
ManifestRecords ==
    [tables |-> [t \in {"records"} |->
        << ColumnDefinition("heart_rate", "HKQuantityTypeIdentifierHeartRate", None, FALSE, None),
           ColumnDefinition("step_count", "HKQuantityTypeIdentifierStepCount", None, FALSE, None) >>]]

\* A manifest with a record table, workouts and activity_summaries, none declaring a primary key.
ManifestHealth ==
    [tables |-> [t \in {"vitals", "workouts", "activity_summaries"} |->
        CASE t = "vitals" ->
               << ColumnDefinition("heart_rate", "HKQuantityTypeIdentifierHeartRate", None, FALSE, "value") >>
          [] t = "workouts" ->
               << ColumnDefinition("activity_type", None, "workoutActivityType", FALSE, "attribute"),
                  ColumnDefinition("active_energy", "HKQuantityTypeIdentifierActiveEnergyBurned",
                                   None, FALSE, "statistics_sum") >>
          [] t = "activity_summaries" ->
               << ColumnDefinition("active_energy", None, "activeEnergyBurned", FALSE, None) >> ]]

ManifestTables == {ManifestRecords, ManifestHealth}

\* settings.batch_size: absent (<<>>, no [settings]) or a configured size <<n>>.
BatchSizes == {<<>>} \cup {<<n>> : n \in 1..MaxBatch}

\* toml::from_str: the manifests the model loads.
Manifests == {[tables |-> mt.tables, batch_size |-> b] : mt \in ManifestTables, b \in BatchSizes}

Tables(m) == DOMAIN m.tables

Columns(m, t) == m.tables[t]

ColumnSet(m, t) == {Columns(m, t)[i] : i \in DOMAIN Columns(m, t)}

\* manifest.settings.as_ref().and_then(|s| s.batch_size).unwrap_or(5000)
batch_size(m) == IF m.batch_size = <<>> THEN DefaultBatchSize ELSE m.batch_size[1]

\* ensure_schema: the primary-key column of a table.
PrimaryKey(m, t) ==
    IF \E c \in ColumnSet(m, t) : c.is_primary_key
    THEN Columns(m, t)[CHOOSE i \in DOMAIN Columns(m, t) :
                          /\ Columns(m, t)[i].is_primary_key
                          /\ \A j \in 1..(i - 1) : ~Columns(m, t)[j].is_primary_key].field_name
    ELSE "uuid"

\* ensure_schema: the columns a manifest table has after reconciliation.
TableColumns(m, t) ==
    {PrimaryKey(m, t), "creation_date", "start_date", "end_date"}
        \cup {c.field_name : c \in ColumnSet(m, t)}

----------------------------------------------------------------------------
(* XML events, as quick_xml's reader yields them *)

Malformed == "<malformed>"

Attr(key, value) == <<key, value>>

\* <name attrs/>
XmlEmpty(name, attrs) ==
    [kind |-> "Empty", name |-> name, attrs |-> attrs, children |-> <<>>, closed |-> TRUE]

\* <name attrs> children </name>; closed = FALSE when the input ends before </name>.
XmlStart(name, attrs, children, closed) ==
    [kind |-> "Start", name |-> name, attrs |-> attrs, children |-> children, closed |-> closed]

\* The reader's Err(e): malformed XML.
XmlError == [kind |-> "Err", name |-> "", attrs |-> <<>>, children |-> <<>>, closed |-> TRUE]

\* Text, declarations, end tags, elements the parser has no arm for.
XmlOther == [kind |-> "Other", name |-> "", attrs |-> <<>>, children |-> <<>>, closed |-> TRUE]

HasMalformed(attrs) == \E i \in DOMAIN attrs : attrs[i][1] = Malformed

HasAttr(attrs, key) == \E i \in DOMAIN attrs : attrs[i][1] = key

\* The value a `match key { k => x = val }` loop leaves in x: the last attribute named key.
AttrValue(attrs, key) ==
    IF HasAttr(attrs, key)
    THEN attrs[CHOOSE i \in DOMAIN attrs :
                  /\ attrs[i][1] = key
                  /\ \A j \in DOMAIN attrs : attrs[j][1] = key => j <= i][2]
    ELSE Empty

\* The map a sequence of HashMap::insert(field, value) calls builds: the last write wins.
FromWrites(ws) ==
    [f \in {ws[i][1] : i \in DOMAIN ws} |->
        ws[CHOOSE i \in DOMAIN ws :
              /\ ws[i][1] = f
              /\ \A j \in DOMAIN ws : ws[j][1] = f => j <= i][2]]

\* for col in columns { if test(col) { map.insert(col.field_name, value) } },
\* given the columns that pass the test, in manifest order.
ColumnWrites(sel, value) ==
    [i \in 1..Len(sel) |-> <<sel[i].field_name, value>>]

----------------------------------------------------------------------------
(* parse_and_ingest: the precomputed lookup and the staged rows *)

DataPoint(table_name, columns) == [table_name |-> table_name, columns |-> columns]

NoDataPoint == [table_name |-> None, columns |-> <<>>]

IsValueColumn(c) ==
    /\ c.hk_identifier # None
    /\ c.extraction_source \in {None, "value"}

\* record_map: hk_id -> (table, column).  Within a table the last column declaring
\* an identifier wins; the manifests of this model declare each identifier in one table.
record_map(m) ==
    LET ids == {c.hk_identifier : c \in {c \in UNION {ColumnSet(m, t) : t \in Tables(m)} : IsValueColumn(c)}}
    IN  [hk \in ids |->
            LET t == CHOOSE t \in Tables(m) :
                         \E c \in ColumnSet(m, t) : IsValueColumn(c) /\ c.hk_identifier = hk
                i == CHOOSE i \in DOMAIN Columns(m, t) :
                         /\ IsValueColumn(Columns(m, t)[i]) /\ Columns(m, t)[i].hk_identifier = hk
                         /\ \A j \in DOMAIN Columns(m, t) :
                               (IsValueColumn(Columns(m, t)[j]) /\ Columns(m, t)[j].hk_identifier = hk)
                                   => j <= i
            IN  <<t, Columns(m, t)[i].field_name>>]

\* table_buffers after the pre-processing loop: one empty buffer per table with a column.
InitBuffers(m) == [t \in {t \in Tables(m) : Len(Columns(m, t)) > 0} |-> <<>>]

\* sha2::Sha256 over the concatenated bytes, taken as injective.
Sha256(bytes) == <<"sha256">> \o bytes

extract_record_data(e, rm) ==
    LET attrs      == SelectSeq(e.attrs, LAMBDA a : a[1] # Malformed)
        hk_type    == AttrValue(attrs, "type")
        value      == AttrValue(attrs, "value")
        creation   == normalize_date(AttrValue(attrs, "creationDate"))
        start_date == normalize_date(AttrValue(attrs, "startDate"))
        end_date   == normalize_date(AttrValue(attrs, "endDate"))
    IN  IF \E hk \in DOMAIN rm : Str(hk) = hk_type
        THEN LET hk         == CHOOSE hk \in DOMAIN rm : Str(hk) = hk_type
                 table_name == rm[hk][1]
                 col_name   == rm[hk][2]
                 hash_id    == Sha256(Str(table_name) \o Str(col_name) \o start_date
                                        \o end_date \o value)
             IN  DataPoint(table_name,
                           FromWrites(<< <<"uuid", hash_id>>,
                                         <<"creation_date", creation>>,
                                         <<"start_date", start_date>>,
                                         <<"end_date", end_date>>,
                                         <<col_name, value>> >>))
        ELSE NoDataPoint

\* The ActivitySummary arm: summary_data.
RECURSIVE SummaryWrites(_, _)
SummaryWrites(attrs, m) ==
    IF attrs = <<>> THEN <<>>
    ELSE LET a == Head(attrs)
         IN  (IF "activity_summaries" \in Tables(m)
              THEN ColumnWrites(SelectSeq(Columns(m, "activity_summaries"),
                                LAMBDA c : c.hk_attribute = a[1]), a[2])
              ELSE <<>>)
             \o SummaryWrites(Tail(attrs), m)

\* The Workout arm: the writes of the loop over the element's own attributes.
RECURSIVE WorkoutAttrWrites(_, _)
WorkoutAttrWrites(attrs, m) ==
    IF attrs = <<>> THEN <<>>
    ELSE LET a == Head(attrs)
         IN  (IF "workouts" \in Tables(m)
              THEN ColumnWrites(SelectSeq(Columns(m, "workouts"),
                                LAMBDA c : /\ c.extraction_source = "attribute"
                                           /\ c.hk_attribute # None
                                           /\ c.hk_attribute = a[1]), a[2])
              ELSE <<>>)
             \o WorkoutAttrWrites(Tail(attrs), m)

\* Path::new(path).file_name().unwrap_or_default(): the last component of the path.
file_name(path) == IF path = <<>> THEN <<>> ELSE <<path[Len(path)]>>

\* What one child element of a Workout does: "err" (attr?), "panic"
\* (manifest.tables["workouts"] on a manifest without that table) or "ok".
ChildControl(ce, m) ==
    IF ce.name \in {"WorkoutStatistics", "MetadataEntry"}
    THEN IF HasMalformed(ce.attrs) THEN "err"
         ELSE IF "workouts" \notin Tables(m) THEN "panic" ELSE "ok"
    ELSE IF ce.name = "FileReference"
    THEN IF \E i \in DOMAIN ce.attrs : ce.attrs[i][1] \in {Malformed, "path"}
         THEN LET i == CHOOSE i \in DOMAIN ce.attrs :
                           /\ ce.attrs[i][1] \in {Malformed, "path"}
                           /\ \A j \in 1..(i - 1) : ce.attrs[j][1] \notin {Malformed, "path"}
              IN  IF ce.attrs[i][1] = Malformed THEN "err"
                  ELSE IF "workouts" \notin Tables(m) THEN "panic"
                  ELSE IF HasMalformed(ce.attrs) THEN "err" ELSE "ok"
         ELSE "ok"
    ELSE "ok"

\* The writes one child element of a Workout makes to workout_data.
ChildWrites(ce, m) ==
    IF ce.name = "WorkoutStatistics"
    THEN ColumnWrites(SelectSeq(Columns(m, "workouts"),
                      LAMBDA c : /\ c.extraction_source = "statistics_sum"
                                 /\ c.hk_identifier # None
                                 /\ Str(c.hk_identifier) = AttrValue(ce.attrs, "type")),
                      AttrValue(ce.attrs, "sum"))
    ELSE IF ce.name = "MetadataEntry"
    THEN ColumnWrites(SelectSeq(Columns(m, "workouts"),
                      LAMBDA c : /\ c.extraction_source = "metadata_value"
                                 /\ c.hk_identifier # None
                                 /\ Str(c.hk_identifier) = AttrValue(ce.attrs, "key")),
                      AttrValue(ce.attrs, "value"))
    ELSE IF ce.name = "FileReference" /\ HasAttr(ce.attrs, "path")
    THEN ColumnWrites(SelectSeq(Columns(m, "workouts"),
                      LAMBDA c : c.extraction_source = "route_ref"),
                      file_name(AttrValue(ce.attrs, "path")))
    ELSE <<>>

\* The inner loop over the children of a Workout: [ctl, writes].
RECURSIVE WorkoutChildren(_, _)
WorkoutChildren(children, m) ==
    IF children = <<>> THEN [ctl |-> "ok", writes |-> <<>>]
    ELSE LET ctl == ChildControl(Head(children), m)
         IN  IF ctl # "ok" THEN [ctl |-> ctl, writes |-> <<>>]
             ELSE LET rest == WorkoutChildren(Tail(children), m)
                  IN  [ctl |-> rest.ctl,
                       writes |-> ChildWrites(Head(children), m) \o rest.writes]

\* One iteration of the event loop, up to the buffer check: what the match arm
\* for event e does.  ctl: "next" (fall through to the buffer check), "break",
\* "err" (a `?` returned an error), "panic".  dps: the DataPoints pushed.
\* toEnd: the arm consumed the input up to its end.
HandleEvent(e, m, bufs) ==
    LET Push(dp) == IF dp.table_name \in DOMAIN bufs THEN <<dp>> ELSE <<>>
        Out(ctl, dps, toEnd) == [ctl |-> ctl, dps |-> dps, toEnd |-> toEnd]
    IN
    CASE e.kind = "Empty" /\ e.name = "Record" ->
           Out("next", Push(extract_record_data(e, record_map(m))), FALSE)
      [] e.kind = "Empty" /\ e.name = "ActivitySummary" ->
           IF HasMalformed(e.attrs) THEN Out("err", <<>>, FALSE)
           ELSE Out("next",
                    Push(DataPoint("activity_summaries", FromWrites(SummaryWrites(e.attrs, m)))),
                    FALSE)
      [] e.kind = "Start" /\ e.name = "Record" ->
           IF e.closed
           THEN Out("next", Push(extract_record_data(e, record_map(m))), FALSE)
           ELSE Out("err", Push(extract_record_data(e, record_map(m))), TRUE)
      [] e.kind = "Start" /\ e.name = "Workout" ->
           IF HasMalformed(e.attrs) THEN Out("err", <<>>, FALSE)
           ELSE LET kids == WorkoutChildren(e.children, m)
                    workout_data ==
                        FromWrites(WorkoutAttrWrites(e.attrs, m)
                            \o << <<"start_date", normalize_date(AttrValue(e.attrs, "startDate"))>>,
                                  <<"end_date", normalize_date(AttrValue(e.attrs, "endDate"))>>,
                                  <<"creation_date",
                                    normalize_date(AttrValue(e.attrs, "creationDate"))>> >>
                            \o kids.writes)
                IN  IF kids.ctl # "ok" THEN Out(kids.ctl, <<>>, FALSE)
                    ELSE Out("next", Push(DataPoint("workouts", workout_data)), ~e.closed)
      [] e.kind = "Err" -> Out("break", <<>>, FALSE)
      [] OTHER -> Out("next", <<>>, FALSE)

\* needs_flush: some buffer has reached batch_size.
needs_flush(bufs, m) == \E t \in DOMAIN bufs : Len(bufs[t]) >= batch_size(m)

RECURSIVE SumLen(_, _)
SumLen(bufs, ts) ==
    IF ts = {} THEN 0
    ELSE LET t == CHOOSE t \in ts : TRUE IN Len(bufs[t]) + SumLen(bufs, ts \ {t})

\* A faulty variant of batch_count, for contrast: only the fullest buffer is counted.
batch_count_fullest(bufs) ==
    IF DOMAIN bufs = {} THEN 0
    ELSE Len(bufs[CHOOSE t \in DOMAIN bufs : \A u \in DOMAIN bufs : Len(bufs[u]) <= Len(bufs[t])])

\* batch_count: the number of staged DataPoints over all buffers.
batch_count(bufs) == SumLen(bufs, DOMAIN bufs)

\* A faulty variant of final_count, for contrast: the residual buffers are not counted (so not flushed).
final_count_none(bufs) == 0

\* final_count: the residual DataPoints after the loop.
final_count(bufs) == SumLen(bufs, DOMAIN bufs)

----------------------------------------------------------------------------
(* The example export the model reads *)

D1 == HkDate(10, "-", 5)

D2 == HkDate(11, "-", 5)

\* <Record type=HeartRate value=60 .../>
RecordHeartRate ==
    XmlEmpty("Record", << Attr("type", Str("HKQuantityTypeIdentifierHeartRate")),
                          Attr("creationDate", D1), Attr("startDate", D1),
                          Attr("endDate", D2), Attr("value", Str("60")) >>)

\* <Record type=StepCount value=500 ...> <MetadataEntry/> </Record>
RecordStepCount ==
    XmlStart("Record", << Attr("type", Str("HKQuantityTypeIdentifierStepCount")),
                          Attr("creationDate", D1), Attr("startDate", D1),
                          Attr("endDate", D2), Attr("value", Str("500")) >>,
             << XmlEmpty("MetadataEntry", <<>>) >>, TRUE)

\* <ActivitySummary dateComponents=.. activeEnergyBurned=../>
ActivitySummary ==
    XmlEmpty("ActivitySummary", << Attr("dateComponents", Str("2024-01-01")),
                                   Attr("activeEnergyBurned", Str("320")) >>)

\* <Workout ...> <WorkoutStatistics type=ActiveEnergyBurned sum=100/> </Workout>
Workout ==
    XmlStart("Workout", << Attr("workoutActivityType", Str("Running")),
                           Attr("startDate", D1), Attr("endDate", D2),
                           Attr("creationDate", D2) >>,
             << XmlEmpty("WorkoutStatistics",
                         << Attr("type", Str("HKQuantityTypeIdentifierActiveEnergyBurned")),
                            Attr("sum", Str("100")) >>) >>, TRUE)

\* The first record again, written with another UTC offset and creation date.
RecordHeartRateShifted ==
    XmlEmpty("Record", << Attr("type", Str("HKQuantityTypeIdentifierHeartRate")),
                          Attr("creationDate", D2), Attr("startDate", HkDate(12, "-", 3)),
                          Attr("endDate", HkDate(13, "-", 3)), Attr("value", Str("60")) >>)

Events == {RecordHeartRate, RecordStepCount, ActivitySummary, Workout, XmlError}

RecordEvents == {RecordHeartRate, RecordHeartRateShifted, RecordStepCount}

RECURSIVE SeqsUpTo(_, _)
SeqsUpTo(S, n) ==
    IF n = 0 THEN {<<>>}
    ELSE LET shorter == SeqsUpTo(S, n - 1)
         IN  shorter \cup {Append(q, x) : q \in {q \in shorter : Len(q) = n - 1}, x \in S}

Files == SeqsUpTo(Events, MaxFileLen)

RecordFiles == SeqsUpTo(RecordEvents, MaxFileLen)

----------------------------------------------------------------------------
(* SQLite: INSERT OR IGNORE into a table, inside a transaction *)

\* The statement fails: an empty column list is a syntax error, a column the
\* table lacks is "no such column".
InsertFails(m, t, row) ==
    \/ DOMAIN row = {}
    \/ ~(DOMAIN row \subseteq TableColumns(m, t))

\* A faulty variant of InsertOrIgnore, for contrast: every row is stored, whatever its primary key.
InsertAlways(rows, pk, row) == Append(rows, row)

\* INSERT OR IGNORE: a row whose primary key is already stored is skipped; a row
\* with no primary-key value (NULL) is always stored.
InsertOrIgnore(rows, pk, row) ==
    IF pk \in DOMAIN row /\ \E i \in DOMAIN rows : pk \in DOMAIN rows[i] /\ rows[i][pk] = row[pk]
    THEN rows
    ELSE Append(rows, row)

\* A faulty variant of DropTx, for contrast: the statements executed before the error stay applied.
DropTxKeepsWrites(committed, view) == view

\* A Transaction dropped without commit rolls back: the committed tables stay as
\* they were (committed = the tables outside, view = the transaction's view).
DropTx(committed, view) == committed

RECURSIVE InsertAll(_, _, _)
InsertAll(rows, pk, dps) ==
    IF dps = <<>> THEN rows
    ELSE InsertAll(InsertOrIgnore(rows, pk, Head(dps).columns), pk, Tail(dps))

----------------------------------------------------------------------------
(* The job registry *)

Processing(progress) == [status |-> "processing", progress |-> progress]

Completed(records_processed) == [status |-> "completed", records_processed |-> records_processed]

Failed(err) == [status |-> "failed", error |-> err]

IsTerminal(st) == st.status \in {"completed", "failed"}

\* The closure ingest_handler passes as on_progress: it spawns a task that will
\* write Processing{progress: count}.  seq numbers the calls of one run.
on_progress(count) ==
    /\ reported' = Append(reported, [value |-> count, flushed |-> flushing'.total])
    /\ tasks' = IF caller = "handler"
                THEN tasks \cup {[job |-> run, count |-> count, seq |-> Len(reported) + 1]}
                ELSE tasks

----------------------------------------------------------------------------
(* Initial state: after init_db, before any request *)

NoTx == <<>>

NoFlush == [state |-> "none", before |-> <<>>, rows |-> <<>>, n |-> 0, total |-> 0, pos |-> 0]

\* The external tables before any import.
NoExt == [ecg |-> <<>>, routes |-> <<>>]

\* No init_db or query-layer call in progress.
NoCall == [fn |-> "none", pc |-> "idle"]

\* ensure_schema on a fresh database: each manifest table is created with its key and
\* the three date columns, then every other manifest column is added in manifest order.
FreshSchema(m, t) ==
    LET base == <<PrimaryKey(m, t), "creation_date", "start_date", "end_date">>
        old  == {base[i] : i \in DOMAIN base}
        add  == SelectSeq(Columns(m, t), LAMBDA c : c.field_name \notin old)
    IN  base \o [i \in 1..Len(add) |-> add[i].field_name]

\* The importer, init_db and the query layer at rest, on the database init_db made.
RestIdle ==
    /\ schema = [t \in Tables(manifest) |-> FreshSchema(manifest, t)]
    /\ folder = <<>>
    /\ ext = NoExt
    /\ scans = <<>>
    /\ call = NoCall

InitWith(who, files) ==
    /\ manifest \in Manifests
    /\ file \in files
    /\ caller = who
    /\ run = 0
    /\ pc = "idle"
    /\ pos = 1
    /\ table_buffers = <<>>
    /\ total_count = 0
    /\ final = FALSE
    /\ ftab = None
    /\ fidx = 0
    /\ txdb = NoTx
    /\ db = [t \in Tables(manifest) |-> <<>>]
    /\ error = ""
    /\ jobs = <<>>
    /\ tasks = {}
    /\ reported = <<>>
    /\ staged = 0
    /\ logged = FALSE
    /\ flushing = NoFlush
    /\ results = <<>>
    /\ RestIdle

Init == InitWith("handler", Files)

InitDirect == InitWith("direct", Files)

InitRecords == InitWith("direct", RecordFiles)

----------------------------------------------------------------------------
(* Starting an ingestion *)

\* parse_and_ingest up to its loop: the export is opened (a readable file: the
\* handler has checked that the path exists) and the manifest pre-processed.
StartRun ==
    /\ run' = run + 1
    /\ pc' = "loop"
    /\ pos' = 1
    /\ table_buffers' = InitBuffers(manifest)
    /\ total_count' = 0
    /\ final' = FALSE
    /\ error' = ""
    /\ reported' = <<>>
    /\ staged' = 0
    /\ logged' = FALSE
    /\ flushing' = NoFlush
    /\ UNCHANGED <<manifest, file, caller, ftab, fidx, txdb, db, tasks, results>>
    /\ UNCHANGED restVars

\* POST /ingest: register the job as Processing{0} and spawn the background task.
\* (Requests are taken one at a time: the next one once the previous task ended.)
ingest_handler ==
    /\ caller = "handler"
    /\ pc \in {"idle", "panic"}
    /\ run < MaxRuns
    /\ jobs' = (run + 1 :> Processing(0)) @@ jobs
    /\ StartRun

\* parse_and_ingest called by a test or tool, one call after the other.
CallDirect ==
    /\ caller = "direct"
    /\ pc = "idle"
    /\ run < MaxRuns
    /\ UNCHANGED jobs
    /\ StartRun

\* parse_and_ingest called once on a fresh database.
CallOnce ==
    /\ caller = "direct"
    /\ pc = "idle"
    /\ run = 0
    /\ UNCHANGED jobs
    /\ StartRun

----------------------------------------------------------------------------
(* parse_and_ingest *)

\* The code after the loop: the final flush of residual buffers, or Ok(total_count).
AfterLoop(bufs) ==
    IF final_count(bufs) > 0
    THEN /\ total_count' = total_count + final_count(bufs)
         /\ final' = TRUE
         /\ pc' = "flush_begin"
    ELSE /\ total_count' = total_count
         /\ final' = final
         /\ pc' = "ok"

\* One iteration of the loop: read an event, run its arm, check the buffers.
ReadEvent ==
    /\ pc = "loop"
    /\ IF pos > Len(file)
       THEN \* Ok(Event::Eof) => break
            /\ AfterLoop(table_buffers)
            /\ UNCHANGED <<pos, table_buffers, staged, error, logged>>
       ELSE LET h    == HandleEvent(file[pos], manifest, table_buffers)
                bufs == IF h.dps = <<>> THEN table_buffers
                        ELSE [table_buffers EXCEPT ![h.dps[1].table_name] = @ \o h.dps]
            IN  /\ pos' = IF h.toEnd THEN Len(file) + 1 ELSE pos + 1
                /\ table_buffers' = bufs
                /\ staged' = staged + Len(h.dps)
                /\ logged' = (logged \/ file[pos].kind = "Err")
                /\ CASE h.ctl = "err" ->
                          /\ pc' = "err"
                          /\ error' = "xml"
                          /\ UNCHANGED <<total_count, final>>
                     [] h.ctl = "panic" ->
                          /\ pc' = "panic"
                          /\ UNCHANGED <<total_count, final, error>>
                     [] h.ctl = "break" ->
                          /\ AfterLoop(bufs)
                          /\ UNCHANGED error
                     [] OTHER ->
                          /\ IF needs_flush(bufs, manifest)
                             THEN /\ total_count' = total_count + batch_count(bufs)
                                  /\ pc' = "flush_begin"
                             ELSE /\ total_count' = total_count
                                  /\ pc' = "loop"
                          /\ UNCHANGED <<final, error>>
    /\ UNCHANGED <<manifest, file, caller, run, ftab, fidx, txdb, db, jobs, tasks, reported,
                   flushing, results>>
    /\ UNCHANGED restVars

\* flush_buffers: pool.begin().await?
FlushBegin ==
    /\ pc = "flush_begin"
    /\ \E ok \in BOOLEAN :
         IF ok
         THEN /\ txdb' = db
              /\ pc' = "flush_rows"
              /\ error' = error
              /\ flushing' = [state |-> "open", before |-> db, rows |-> table_buffers, n |-> 0,
                              total |-> flushing.total, pos |-> pos]
         ELSE /\ txdb' = txdb
              /\ pc' = "err"
              /\ error' = "db"
              /\ flushing' = [state |-> "failed", before |-> db, rows |-> table_buffers, n |-> 0,
                              total |-> flushing.total, pos |-> pos]
    /\ UNCHANGED <<manifest, file, caller, run, pos, table_buffers, total_count, final, ftab,
                   fidx, db, jobs, tasks, reported, staged, logged, results>>
    /\ UNCHANGED restVars

\* The transaction's view after the statement for one record has executed.
Execute(view, t, row) == [view EXCEPT ![t] = InsertOrIgnore(@, PrimaryKey(manifest, t), row)]

\* flush_buffers: one q.execute(&mut *tx).await? of the loops over the buffers; the
\* tables are visited in the HashMap's order, each buffer cleared after its last record.
FlushInsert ==
    /\ pc = "flush_rows"
    /\ \E t \in IF ftab # None THEN {ftab}
                ELSE {t \in DOMAIN table_buffers : table_buffers[t] # <<>>} :
         LET i   == IF ftab # None THEN fidx ELSE 1
             row == table_buffers[t][i].columns
         IN  \E ok \in IF InsertFails(manifest, t, row) THEN {FALSE} ELSE BOOLEAN :
               IF ok
               THEN /\ txdb' = Execute(txdb, t, row)
                    /\ flushing' = [flushing EXCEPT !.n = @ + 1]
                    /\ IF i = Len(table_buffers[t])
                       THEN /\ table_buffers' = [table_buffers EXCEPT ![t] = <<>>]
                            /\ ftab' = None
                            /\ fidx' = 0
                       ELSE /\ table_buffers' = table_buffers
                            /\ ftab' = t
                            /\ fidx' = i + 1
                    /\ UNCHANGED <<pc, error, db>>
               ELSE \* the error returns; dropping tx rolls the transaction back
                    /\ db' = DropTx(db, txdb)
                    /\ txdb' = NoTx
                    /\ flushing' = [flushing EXCEPT !.state = "failed"]
                    /\ pc' = "err"
                    /\ error' = "db"
                    /\ ftab' = None
                    /\ fidx' = 0
                    /\ UNCHANGED table_buffers
    /\ UNCHANGED <<manifest, file, caller, run, pos, total_count, final, jobs, tasks,
                   reported, staged, logged, results>>
    /\ UNCHANGED restVars

\* flush_buffers: tx.commit().await?, and what parse_and_ingest does on its return:
\* on_progress(total_count) in the loop, Ok(total_count) after the final flush.
FlushCommit ==
    /\ pc = "flush_rows"
    /\ ftab = None
    /\ \A t \in DOMAIN table_buffers : table_buffers[t] = <<>>
    /\ \E ok \in BOOLEAN :
         IF ok
         THEN /\ db' = txdb
              /\ txdb' = NoTx
              /\ flushing' = [flushing EXCEPT !.state = "committed", !.total = @ + flushing.n]
              /\ error' = error
              /\ IF final
                 THEN /\ pc' = "ok"
                      /\ UNCHANGED <<reported, tasks>>
                 ELSE /\ pc' = "loop"
                      /\ on_progress(total_count)
         ELSE /\ db' = DropTx(db, txdb)
              /\ txdb' = NoTx
              /\ flushing' = [flushing EXCEPT !.state = "failed"]
              /\ pc' = "err"
              /\ error' = "db"
              /\ UNCHANGED <<reported, tasks>>
    /\ UNCHANGED <<manifest, file, caller, run, pos, table_buffers, total_count, final, ftab,
                   fidx, jobs, staged, logged, results>>
    /\ UNCHANGED restVars

\* What is recorded of a run when parse_and_ingest returns.
Outcome == [outcome |-> pc, count |-> total_count, error |-> error, db |-> db,
            xml_error |-> logged]

\* The background task's match on the result: Completed{count} or Failed{error}.
WriteOutcome ==
    /\ caller = "handler"
    /\ pc \in {"ok", "err"}
    /\ jobs' = [jobs EXCEPT ![run] = IF pc = "ok" THEN Completed(total_count) ELSE Failed(error)]
    /\ results' = (run :> Outcome) @@ results
    /\ pc' = "idle"
    /\ UNCHANGED <<manifest, file, caller, run, pos, table_buffers, total_count, final, ftab,
                   fidx, txdb, db, error, tasks, reported, staged, logged, flushing>>
    /\ UNCHANGED restVars

\* parse_and_ingest returns to a direct caller.
ReturnDirect ==
    /\ caller = "direct"
    /\ pc \in {"ok", "err"}
    /\ results' = (run :> Outcome) @@ results
    /\ pc' = "idle"
    /\ UNCHANGED <<manifest, file, caller, run, pos, table_buffers, total_count, final, ftab,
                   fidx, txdb, db, error, jobs, tasks, reported, staged, logged,
                   flushing>>
    /\ UNCHANGED restVars

\* A task spawned by on_progress runs: it takes the write lock and stores Processing.
ProgressTask ==
    \E t \in tasks :
        /\ jobs' = [jobs EXCEPT ![t.job] = Processing(t.count)]
        /\ tasks' = tasks \ {t}
        /\ UNCHANGED <<manifest, file, caller, run, pc, pos, table_buffers, total_count, final,
                       ftab, fidx, txdb, db, error, reported, staged, logged, flushing,
                       results>>
        /\ UNCHANGED restVars

parse_and_ingest == ReadEvent \/ FlushBegin \/ FlushInsert \/ FlushCommit

\* The server: ingestion jobs, their background tasks and progress tasks.
Next == ingest_handler \/ parse_and_ingest \/ WriteOutcome \/ ProgressTask

Spec == Init /\ [][Next]_vars

\* One direct call of parse_and_ingest on a fresh database.
NextParse == CallOnce \/ parse_and_ingest \/ ReturnDirect

SpecParse == InitDirect /\ [][NextParse]_vars

\* Repeated direct calls of parse_and_ingest on files of Records.
NextReingest == CallDirect \/ parse_and_ingest \/ ReturnDirect

SpecReingest == InitRecords /\ [][NextReingest]_vars

----------------------------------------------------------------------------
(* init_db: schema reconciliation (src/src/db.rs, ensure_schema) *)

\* SQL NULL, as a stored value.
Null == <<"NULL">>

\* The value SQLite shows for a VIRTUAL generated column.
GeneratedValue(expr) == <<"generated", expr>>

\* col_def.expression: Some(expr) on a column built by Generated, None otherwise.
expression(c) == IF "expression" \in DOMAIN c THEN c.expression ELSE None

\* A ColumnDefinition with expression = Some(expr).
Generated(c, expr) ==
    [f \in DOMAIN c \cup {"expression"} |-> IF f = "expression" THEN expr ELSE c[f]]

\* A manifest with a generated column and a table that declares its primary key.
ManifestKeyed ==
    [tables |-> [t \in {"vitals", "workouts"} |->
        IF t = "vitals"
        THEN << ColumnDefinition("heart_rate", "HKQuantityTypeIdentifierHeartRate", None, FALSE, "value"),
                Generated(ColumnDefinition("hr_reserve", None, None, FALSE, None),
                          "220 - heart_rate") >>
        ELSE << ColumnDefinition("session_id", None, "uuid", TRUE, "attribute"),
                ColumnDefinition("activity_type", None, "workoutActivityType", FALSE, "attribute") >>],
     batch_size |-> <<>>]

SchemaManifests ==
    {ManifestKeyed, [tables |-> ManifestRecords.tables, batch_size |-> <<>>]}

Range(q) == {q[i] : i \in DOMAIN q}

\* The columns CREATE TABLE gives a manifest table.
BaseColumns(m, t) == <<PrimaryKey(m, t), "creation_date", "start_date", "end_date">>

\* Column lists a table made by an earlier start (under an older manifest) can have:
\* the base columns alone, with the first manifest column, with a column the manifest
\* no longer lists, or under the default key with a legacy and the last manifest column.
OldColumns(m, t) ==
    { BaseColumns(m, t),
      BaseColumns(m, t) \o <<Columns(m, t)[1].field_name>>,
      BaseColumns(m, t) \o <<"legacy">>,
      <<"uuid", "creation_date", "start_date", "end_date", "legacy">>
          \o <<Columns(m, t)[Len(Columns(m, t))].field_name>> }

\* Row i of a table with the columns cs.
StoredRow(cs, i) == [c \in Range(cs) |-> <<c, ToString(i)>>]

\* The databases init_db can find: any of the manifest's tables may exist already.
Databases(m) ==
    LET states(t) == {[cols |-> cs, n |-> n] : cs \in OldColumns(m, t), n \in 0..MaxRows}
        all       == UNION {states(t) : t \in Tables(m)}
    IN  UNION {{f \in [S -> all] : \A t \in S : f[t] \in states(t)} : S \in SUBSET Tables(m)}

\* CREATE TABLE: a variant that replaces the table when it exists, for contrast.
CreateTableReplace(tables, t, value) == (t :> value) @@ [x \in DOMAIN tables \ {t} |-> tables[x]]

\* CREATE TABLE IF NOT EXISTS t (...): nothing happens to a table that exists.
CreateTableIfNotExists(tables, t, value) ==
    IF t \in DOMAIN tables THEN tables ELSE (t :> value) @@ tables

\* ALTER TABLE t ADD COLUMN col: every stored row shows NULL in the new column, or the
\* generated value when the column has an expression.
AddColumn(rows, col_def) ==
    [i \in DOMAIN rows |->
        (col_def.field_name :> IF expression(col_def) # None
                               THEN GeneratedValue(expression(col_def)) ELSE Null)
            @@ rows[i]]

\* SQLite rejects ADD COLUMN for a name the table has ("duplicate column name").
AlterFails(tables, t, col_def) == col_def.field_name \in Range(tables[t])

\* No ingestion has been requested.
IngestIdle ==
    /\ file = <<>>
    /\ caller = "none"
    /\ run = 0
    /\ pc = "idle"
    /\ pos = 1
    /\ table_buffers = <<>>
    /\ total_count = 0
    /\ final = FALSE
    /\ ftab = None
    /\ fidx = 0
    /\ txdb = NoTx
    /\ error = ""
    /\ jobs = <<>>
    /\ tasks = {}
    /\ reported = <<>>
    /\ staged = 0
    /\ logged = FALSE
    /\ flushing = NoFlush
    /\ results = <<>>

InitSchema ==
    /\ manifest \in SchemaManifests
    /\ \E d \in Databases(manifest) :
         /\ schema = [t \in DOMAIN d |-> d[t].cols]
         /\ db = [t \in DOMAIN d |-> [i \in 1..d[t].n |-> StoredRow(d[t].cols, i)]]
    /\ IngestIdle
    /\ folder = <<>>
    /\ ext = NoExt
    /\ scans = <<>>
    /\ call = NoCall

\* init_db reaches ensure_schema (the server starts, or starts again).
init_db ==
    /\ call.fn \in {"none", "ensure_schema"}
    /\ call.pc \in {"idle", "ok", "err"}
    /\ (IF call.fn = "none" THEN 0 ELSE call.starts) < MaxRuns
    /\ call' = [fn |-> "ensure_schema", pc |-> "create",
                starts |-> (IF call.fn = "none" THEN 0 ELSE call.starts) + 1,
                todo |-> Tables(manifest), table |-> None, existing_columns |-> {},
                col |-> 0, before |-> [schema |-> schema, db |-> db]]
    /\ UNCHANGED <<manifest, db, schema, folder, ext, scans, ingestVars>>

\* ensure_schema: the loop over manifest.tables (in the HashMap's order) takes the next
\* table and executes CREATE TABLE IF NOT EXISTS; after the last table it returns Ok.
EnsureCreate ==
    /\ call.fn = "ensure_schema"
    /\ call.pc = "create"
    /\ IF call.todo = {}
       THEN /\ call' = [call EXCEPT !.pc = "ok"]
            /\ UNCHANGED <<schema, db>>
       ELSE \E t \in call.todo, ok \in BOOLEAN :
              IF ok
              THEN /\ schema' = CreateTableIfNotExists(schema, t, BaseColumns(manifest, t))
                   /\ db' = CreateTableIfNotExists(db, t, <<>>)
                   /\ call' = [call EXCEPT !.pc = "pragma", !.table = t, !.todo = @ \ {t}]
              ELSE /\ call' = [call EXCEPT !.pc = "err", !.table = t]
                   /\ UNCHANGED <<schema, db>>
    /\ UNCHANGED <<manifest, folder, ext, scans, ingestVars>>

\* ensure_schema: PRAGMA table_info(table), collected into existing_columns.
EnsurePragma ==
    /\ call.fn = "ensure_schema"
    /\ call.pc = "pragma"
    /\ \E ok \in BOOLEAN :
         call' = IF ok
                 THEN [call EXCEPT !.pc = "alter", !.col = 1,
                                   !.existing_columns = Range(schema[call.table])]
                 ELSE [call EXCEPT !.pc = "err"]
    /\ UNCHANGED <<manifest, db, schema, folder, ext, scans, ingestVars>>

\* ensure_schema: one iteration of the loop over table_config.columns.
EnsureAlter ==
    /\ call.fn = "ensure_schema"
    /\ call.pc = "alter"
    /\ LET t    == call.table
           cols == Columns(manifest, t)
       IN  IF call.col > Len(cols)
           THEN /\ call' = [call EXCEPT !.pc = "create"]
                /\ UNCHANGED <<schema, db>>
           ELSE IF cols[call.col].field_name \in call.existing_columns
           THEN /\ call' = [call EXCEPT !.col = @ + 1]
                /\ UNCHANGED <<schema, db>>
           ELSE \E ok \in IF AlterFails(schema, t, cols[call.col]) THEN {FALSE} ELSE BOOLEAN :
                  IF ok
                  THEN /\ schema' = [schema EXCEPT ![t] = Append(@, cols[call.col].field_name)]
                       /\ db' = [db EXCEPT ![t] = AddColumn(@, cols[call.col])]
                       /\ call' = [call EXCEPT !.col = @ + 1]
                  ELSE /\ call' = [call EXCEPT !.pc = "err"]
                       /\ UNCHANGED <<schema, db>>
    /\ UNCHANGED <<manifest, folder, ext, scans, ingestVars>>

ensure_schema == EnsureCreate \/ EnsurePragma \/ EnsureAlter

\* The server started (again and again) on a database that may exist already.
NextSchema == init_db \/ ensure_schema

SpecSchema == InitSchema /\ [][NextSchema]_vars

----------------------------------------------------------------------------
(* The external importer (src/src/importer.rs) *)

EcgConfig == [target_table |-> "ecg_recordings", payload |-> "voltage_data"]

RouteColumn(xml_tag, db_column) == [xml_tag |-> xml_tag, db_column |-> db_column]

RouteConfig ==
    [target_table |-> "route_points",
     columns |-> << RouteColumn("lat", "latitude"), RouteColumn("lon", "longitude"),
                    RouteColumn("ele", "elevation") >>]

\* manifest.external_sources: <<>> for None, <<sources>> for Some(sources); so are
\* sources.ecg and sources.routes.
external_sources(m) == IF "external_sources" \in DOMAIN m THEN m.external_sources ELSE <<>>

\* The manifests of the importer's model: both external sources configured.
ImportManifests ==
    {[tables |-> ManifestRecords.tables, batch_size |-> b,
      external_sources |-> << [ecg |-> <<EcgConfig>>, routes |-> <<RouteConfig>>] >>]
        : b \in BatchSizes}

\* The events quick_xml's reader yields on a GPX file.
GpxStart(name, attrs) == [kind |-> "Start", name |-> name, attrs |-> attrs, text |-> <<>>]

GpxEmpty(name, attrs) == [kind |-> "Empty", name |-> name, attrs |-> attrs, text |-> <<>>]

GpxText(text) == [kind |-> "Text", name |-> "", attrs |-> <<>>, text |-> text]

GpxEnd(name) == [kind |-> "End", name |-> name, attrs |-> <<>>, text |-> <<>>]

\* The reader's Err(e) on ill-formed markup; the reader goes on behind it.
GpxError == [kind |-> "Err", name |-> "", attrs |-> <<>>, text |-> <<>>]

LatLon == << Attr("lat", Str("37.7749")), Attr("lon", Str("-122.4194")) >>

\* <trkpt lat=".." lon=".."></trkpt>
PointPlain == << GpxStart("trkpt", LatLon), GpxEnd("trkpt") >>

\* <trkpt lat=".." lon=".."><ele>12</ele></trkpt>
PointWithEle ==
    << GpxStart("trkpt", LatLon), GpxStart("ele", <<>>), GpxText(Str("12")), GpxEnd("ele"),
       GpxEnd("trkpt") >>

\* <trkpt lat=".." lon=".."/>
PointSelfClosed == << GpxEmpty("trkpt", LatLon) >>

\* Ill-formed markup between two track points.
ReaderError == << GpxError >>

GpxItems == {PointPlain, PointWithEle, PointSelfClosed, ReaderError}

RECURSIVE Flatten(_)
Flatten(items) == IF items = <<>> THEN <<>> ELSE Head(items) \o Flatten(Tail(items))

\* The GPX files of the model: up to MaxPoints track points or errors.
GpxFiles == {Flatten(q) : q \in SeqsUpTo(GpxItems, MaxPoints)}

\* An entry of read_dir.
FileEntry(name, extension, content) ==
    [name |-> name, extension |-> extension, content |-> content]

\* The route folder with the given GPX files, named r1.gpx, r2.gpx, ...
RouteEntries(gs) == [i \in DOMAIN gs |-> FileEntry("r" \o ToString(i) \o ".gpx", "gpx", gs[i])]

\* A variant of the lookup that never finds the file, for contrast.
exists_never(rows, name) == 0

\* SELECT COUNT(*) FROM target_table WHERE file_name = ?
exists(rows, name) == Cardinality({i \in DOMAIN rows : rows[i].file_name = name})

\* The row process_single_ecg inserts (the derived metrics are left out).
EcgRow(f) == [file_name |-> f.name, payload |-> f.content]

\* file_name TEXT UNIQUE: the INSERT fails when the name is recorded already.
EcgInsertFails(rows, f) == \E i \in DOMAIN rows : rows[i].file_name = f.name

\* The locals of process_single_route before its loop.
RouteLocals == [point_buffer |-> <<>>, current_point |-> <<>>, current_tag |-> ""]

\* The attribute loop of a <trkpt>: the map of lat and lon.
RECURSIVE PointAttrs(_)
PointAttrs(attrs) ==
    IF attrs = <<>> THEN <<>>
    ELSE LET a == attrs[Len(attrs)]
         IN  IF a[1] \in {"lat", "lon"}
             THEN (a[1] :> a[2]) @@ PointAttrs(SubSeq(attrs, 1, Len(attrs) - 1))
             ELSE PointAttrs(SubSeq(attrs, 1, Len(attrs) - 1))

\* One arm of the match on the reader's event: [ctl, locals].
HandleGpx(e, l) ==
    CASE e.kind = "Start" ->
           IF e.name = "trkpt" /\ HasMalformed(e.attrs)
           THEN [ctl |-> "err", locals |-> l]
           ELSE [ctl |-> "next",
                 locals |-> [l EXCEPT !.current_point = IF e.name = "trkpt"
                                                        THEN <<PointAttrs(e.attrs)>> ELSE @,
                                      !.current_tag = e.name]]
      [] e.kind = "Text" ->
           IF l.current_point = <<>> THEN [ctl |-> "next", locals |-> l]
           ELSE IF e.text = Str(Malformed) THEN [ctl |-> "err", locals |-> l]
           ELSE [ctl |-> "next",
                 locals |-> [l EXCEPT !.current_point =
                                          <<(l.current_tag :> e.text) @@ l.current_point[1]>>]]
      [] e.kind = "End" ->
           [ctl |-> "next",
            locals |-> [l EXCEPT !.point_buffer = IF e.name = "trkpt" /\ l.current_point # <<>>
                                                  THEN Append(@, l.current_point[1]) ELSE @,
                                 !.current_point = IF e.name = "trkpt" THEN <<>> ELSE @,
                                 !.current_tag = ""]]
      [] OTHER -> [ctl |-> "next", locals |-> l]

\* flush_route_points: the row built for one point.
RouteRow(name, p, cfg) ==
    [col \in {"file_name"} \cup {cfg.columns[i].db_column : i \in DOMAIN cfg.columns} |->
        IF col = "file_name" THEN name
        ELSE LET c == cfg.columns[CHOOSE i \in DOMAIN cfg.columns : cfg.columns[i].db_column = col]
             IN  IF c.xml_tag \in DOMAIN p THEN p[c.xml_tag] ELSE Empty]

\* A run_external_import call at its start.
NewScan ==
    [pc |-> "exists", phase |-> "ecg", idx |-> 1, pos |-> 1, locals |-> RouteLocals,
     final |-> FALSE, log |-> <<>>, result |-> "running", returned |-> NoExt]

\* The file a scan is at.
ScanFile(s) == folder[scans[s].phase][scans[s].idx]

\* The import of the current file ends: import_ecgs / import_routes log the outcome
\* and go on to the next entry.
FinishFile(s, outcome) ==
    [scans[s] EXCEPT !.pc = "exists", !.idx = @ + 1, !.pos = 1, !.locals = RouteLocals,
                     !.final = FALSE,
                     !.log = Append(@, [file |-> ScanFile(s).name, phase |-> scans[s].phase,
                                        outcome |-> outcome])]

\* run_external_import returns (history: the external tables at that moment).
FinishScan(s, result, tables) ==
    [scans[s] EXCEPT !.pc = "done", !.result = result, !.returned = tables]

InitImport(folders) ==
    /\ manifest \in ImportManifests
    /\ folder \in folders
    /\ db = [t \in Tables(manifest) |-> <<>>]
    /\ schema = [t \in Tables(manifest) |-> FreshSchema(manifest, t)]
    /\ ext = NoExt
    /\ scans = <<>>
    /\ call = NoCall
    /\ IngestIdle

\* POST /api/import/external: a scan starts; requests may overlap.
external_import_handler ==
    /\ Len(scans) < MaxRuns
    /\ scans' = Append(scans, NewScan)
    /\ UNCHANGED <<manifest, db, schema, folder, ext, call, ingestVars>>

\* run_external_import called again once the previous call has returned.
run_external_import ==
    /\ \A s \in DOMAIN scans : scans[s].pc = "done"
    /\ external_import_handler

\* import_ecgs / import_routes: the loop over the folder's entries up to the lookup of
\* the entry's file_name; after the last entry of the ECG folder the route folder
\* follows, after the last of the route folder the call returns Ok.
ImportExists ==
    \E s \in DOMAIN scans :
        /\ scans[s].pc = "exists"
        /\ LET sc      == scans[s]
               sources == external_sources(manifest)
               cfg     == IF sources = <<>> THEN <<>> ELSE sources[1][sc.phase]
           IN  IF cfg = <<>> \/ sc.idx > Len(folder[sc.phase])
               THEN scans' = [scans EXCEPT ![s] =
                                 IF sc.phase = "ecg" /\ sources # <<>>
                                 THEN [sc EXCEPT !.phase = "routes", !.idx = 1]
                                 ELSE FinishScan(s, "ok", ext)]
               ELSE IF ScanFile(s).extension # (IF sc.phase = "ecg" THEN "csv" ELSE "gpx")
               THEN scans' = [scans EXCEPT ![s].idx = @ + 1]
               ELSE \E ok \in BOOLEAN :
                      scans' = [scans EXCEPT ![s] =
                                   IF ~ok THEN FinishScan(s, "err", ext)
                                   ELSE IF exists(ext[sc.phase], ScanFile(s).name) > 0
                                   THEN FinishFile(s, "skipped")
                                   ELSE [sc EXCEPT !.pc = sc.phase]]
        /\ UNCHANGED <<manifest, db, schema, folder, ext, call, ingestVars>>

\* process_single_ecg: the INSERT of the recording's row.
ProcessSingleEcg ==
    \E s \in DOMAIN scans :
        /\ scans[s].pc = "ecg"
        /\ \E ok \in IF EcgInsertFails(ext.ecg, ScanFile(s)) THEN {FALSE} ELSE BOOLEAN :
             IF ok
             THEN /\ ext' = [ext EXCEPT !.ecg = Append(@, EcgRow(ScanFile(s)))]
                  /\ scans' = [scans EXCEPT ![s] = FinishFile(s, "ok")]
             ELSE /\ ext' = ext
                  /\ scans' = [scans EXCEPT ![s] = FinishFile(s, "err")]
        /\ UNCHANGED <<manifest, db, schema, folder, call, ingestVars>>

\* process_single_route: one iteration of the loop, or what follows the loop.
RouteEvent ==
    \E s \in DOMAIN scans :
        /\ scans[s].pc = "routes"
        /\ LET sc     == scans[s]
               events == ScanFile(s).content
           IN  IF sc.pos > Len(events)
               THEN \* Ok(Event::Eof) => break
                    scans' = [scans EXCEPT ![s] =
                                 IF sc.locals.point_buffer # <<>>
                                 THEN [sc EXCEPT !.pc = "flush", !.final = TRUE]
                                 ELSE FinishFile(s, "ok")]
               ELSE LET h == HandleGpx(events[sc.pos], sc.locals)
                    IN  scans' = [scans EXCEPT ![s] =
                                     IF h.ctl = "err" THEN FinishFile(s, "err")
                                     ELSE [sc EXCEPT !.locals = h.locals, !.pos = @ + 1,
                                                     !.pc = IF Len(h.locals.point_buffer)
                                                                  >= batch_size(manifest)
                                                            THEN "flush" ELSE "routes"]]
        /\ UNCHANGED <<manifest, db, schema, folder, ext, call, ingestVars>>

\* flush_route_points: one transaction.  k statements execute; the transaction commits
\* when all did and the commit succeeds, and is dropped otherwise.
FlushRoutePoints ==
    \E s \in DOMAIN scans :
        /\ scans[s].pc = "flush"
        /\ LET sc   == scans[s]
               rows == [i \in DOMAIN sc.locals.point_buffer |->
                           RouteRow(ScanFile(s).name, sc.locals.point_buffer[i], RouteConfig)]
           IN  \E k \in 0..Len(rows), ok \in BOOLEAN :
                 IF k = Len(rows) /\ ok
                 THEN /\ ext' = [ext EXCEPT !.routes = @ \o rows]
                      /\ scans' = [scans EXCEPT ![s] =
                                      IF sc.final THEN FinishFile(s, "ok")
                                      ELSE [sc EXCEPT !.pc = "routes",
                                                      !.locals.point_buffer = <<>>]]
                 ELSE /\ ext' = [ext EXCEPT !.routes = DropTx(@, @ \o SubSeq(rows, 1, k))]
                      /\ scans' = [scans EXCEPT ![s] = FinishFile(s, "err")]
        /\ UNCHANGED <<manifest, db, schema, folder, call, ingestVars>>

import_routes == ImportExists \/ RouteEvent \/ FlushRoutePoints

import_files == import_routes \/ ProcessSingleEcg

\* run_external_import called once.
ImportOnce == scans = <<>> /\ external_import_handler

\* One scan of a folder that holds one GPX file.
RouteFolders == {[ecg |-> <<>>, routes |-> RouteEntries(<<g>>)] : g \in GpxFiles}

InitRoute == InitImport(RouteFolders)

NextRoute == ImportOnce \/ import_routes

SpecRoute == InitRoute /\ [][NextRoute]_vars

\* GPX files with one point, with two points, and with none.
SmallGpx == {Flatten(<<PointPlain>>), Flatten(<<PointPlain, PointWithEle>>),
             Flatten(<<ReaderError>>)}

\* An ECG recording (its lines stand as one token) and a file import_ecgs passes over.
EcgFile == FileEntry("a.csv", "csv", <<"Sample Rate,512 hertz", "0.1", "0.9">>)

OtherFile == FileEntry("notes.txt", "txt", <<>>)

\* Folders of up to MaxFiles GPX files, with or without an ECG recording.
ImportFolders ==
    {[ecg |-> e, routes |-> RouteEntries(q)] :
        e \in {<<>>, <<EcgFile>>, <<OtherFile, EcgFile>>}, q \in SeqsUpTo(SmallGpx, MaxFiles)}

InitSequential == InitImport(ImportFolders)

\* run_external_import called repeatedly, each call after the previous one returned.
NextSequential == run_external_import \/ import_files

SpecSequential == InitSequential /\ [][NextSequential]_vars

ConcurrentFolders == {[ecg |-> <<EcgFile>>, routes |-> RouteEntries(<<g>>)] : g \in SmallGpx}

InitConcurrent == InitImport(ConcurrentFolders)

\* POST /api/import/external requests served concurrently.
NextConcurrent == external_import_handler \/ import_files

SpecConcurrent == InitConcurrent /\ [][NextConcurrent]_vars

----------------------------------------------------------------------------
(* The query layer: get_workout_intensity (src/src/db.rs) *)

DefaultMaxHeartRate == 190

\* manifest.user_profile: <<>> for None, <<profile>> for Some(profile); so is
\* profile.max_heart_rate.
user_profile(m) == IF "user_profile" \in DOMAIN m THEN m.user_profile ELSE <<>>

\* manifest.user_profile.as_ref().and_then(|u| u.max_heart_rate).unwrap_or(190)
max_hr(m) ==
    IF user_profile(m) = <<>> THEN DefaultMaxHeartRate
    ELSE IF user_profile(m)[1].max_heart_rate = <<>> THEN DefaultMaxHeartRate
    ELSE user_profile(m)[1].max_heart_rate[1]

\* pct < bound, for pct = (hr / max_hr) * 100.0 and max_hr > 0, in exact arithmetic.
PctBelow(hr, max, bound) == 100 * hr < bound * max

\* A variant of the match that takes the boundary values into the lower zone, for contrast.
ZoneInclusive(hr, max) ==
    IF 100 * hr <= 60 * max THEN "Z1_Recovery"
    ELSE IF 100 * hr <= 70 * max THEN "Z2_Aerobic"
    ELSE IF 100 * hr <= 80 * max THEN "Z3_Steady"
    ELSE IF 100 * hr <= 90 * max THEN "Z4_Threshold"
    ELSE "Z5_Anaerobic"

\* A variant of the match on the fraction hr / max_hr, not the percentage, for contrast.
ZoneOfFraction(hr, max) ==
    IF hr < 60 * max THEN "Z1_Recovery"
    ELSE IF hr < 70 * max THEN "Z2_Aerobic"
    ELSE IF hr < 80 * max THEN "Z3_Steady"
    ELSE IF hr < 90 * max THEN "Z4_Threshold"
    ELSE "Z5_Anaerobic"

\* The match on pct: the first guard that holds names the zone.
Zone(hr, max) ==
    IF PctBelow(hr, max, 60) THEN "Z1_Recovery"
    ELSE IF PctBelow(hr, max, 70) THEN "Z2_Aerobic"
    ELSE IF PctBelow(hr, max, 80) THEN "Z3_Steady"
    ELSE IF PctBelow(hr, max, 90) THEN "Z4_Threshold"
    ELSE "Z5_Anaerobic"

ZoneNames == {"Z1_Recovery", "Z2_Aerobic", "Z3_Steady", "Z4_Threshold", "Z5_Anaerobic"}

\* The loop over the samples: zones, each starting at 0, one increment per sample.
ZoneCounts(samples, max) ==
    [z \in ZoneNames |-> Cardinality({i \in DOMAIN samples : Zone(samples[i], max) = z})]

\* SELECT heart_rate FROM vitals WHERE heart_rate > 0 AND start_date >= ? AND start_date <= ?
SelectHeartRate(rows, start, end) ==
    LET sel == SelectSeq(rows, LAMBDA r : r.heart_rate > 0 /\ r.start_date >= start
                                            /\ r.start_date <= end)
    IN  [i \in DOMAIN sel |-> sel[i].heart_rate]

\* SELECT start_date, end_date FROM workouts WHERE session_id = ?
SelectWorkout(rows, session_id) == SelectSeq(rows, LAMBDA r : r.session_id = session_id)

\* The elements of q at the indices in S, in order.
RECURSIVE Pick(_, _)
Pick(q, S) ==
    IF q = <<>> THEN <<>>
    ELSE Pick(SubSeq(q, 1, Len(q) - 1), S)
             \o (IF Len(q) \in S THEN <<q[Len(q)]>> ELSE <<>>)

VitalsRow(heart_rate, start_date) == [heart_rate |-> heart_rate, start_date |-> start_date]

\* Heart-rate samples (beats per minute, hour of the day): inside the workout of
\* 10h to 12h, on zone boundaries for a maximum of 200, a zero reading, and outside.
SamplePool ==
    << VitalsRow(100, 10), VitalsRow(120, 10), VitalsRow(130, 11), VitalsRow(150, 11),
       VitalsRow(170, 12), VitalsRow(190, 12), VitalsRow(180, 11), VitalsRow(0, 11),
       VitalsRow(150, 13) >>

WorkoutRow == [session_id |-> "w1", start_date |-> 10, end_date |-> 12]

IntensityManifests ==
    {[tables |-> ManifestHealth.tables, batch_size |-> <<>>, user_profile |-> u] :
        u \in {<<>>, <<[max_heart_rate |-> <<>>]>>, <<[max_heart_rate |-> <<200>>]>>}}

InitIntensity ==
    /\ manifest \in IntensityManifests
    /\ \E S \in SUBSET DOMAIN SamplePool :
         db = [t \in Tables(manifest) |->
                  IF t = "vitals" THEN Pick(SamplePool, S)
                  ELSE IF t = "workouts" THEN <<WorkoutRow>> ELSE <<>>]
    /\ schema = [t \in Tables(manifest) |-> FreshSchema(manifest, t)]
    /\ folder = <<>>
    /\ ext = NoExt
    /\ scans = <<>>
    /\ call = NoCall
    /\ IngestIdle

\* GET /api/workouts/{id}/intensity
get_workout_intensity ==
    /\ call.pc = "idle"
    /\ \E id \in {"w1", "w2"} :
         call' = [fn |-> "get_workout_intensity", pc |-> "workout", session_id |-> id]
    /\ UNCHANGED <<manifest, db, schema, folder, ext, scans, ingestVars>>

\* The workout's window is fetched: fetch_one fails on an error and on no row.
FetchWorkout ==
    /\ call.fn = "get_workout_intensity"
    /\ call.pc = "workout"
    /\ \E ok \in IF SelectWorkout(db.workouts, call.session_id) = <<>> THEN {FALSE} ELSE BOOLEAN :
         call' = IF ok
                 THEN [fn |-> call.fn, pc |-> "samples", session_id |-> call.session_id,
                       workout |-> SelectWorkout(db.workouts, call.session_id)[1]]
                 ELSE [fn |-> call.fn, pc |-> "err", session_id |-> call.session_id,
                       error |-> "Workout not found"]
    /\ UNCHANGED <<manifest, db, schema, folder, ext, scans, ingestVars>>

\* The samples are fetched and counted into the zones.
FetchSamples ==
    /\ call.fn = "get_workout_intensity"
    /\ call.pc = "samples"
    /\ \E ok \in BOOLEAN :
         call' = IF ok
                 THEN LET samples == SelectHeartRate(db.vitals, call.workout.start_date,
                                                     call.workout.end_date)
                      IN  [fn |-> call.fn, pc |-> "ok", session_id |-> call.session_id,
                           workout |-> call.workout, samples |-> samples,
                           sample_count |-> Len(samples), max_hr_used |-> max_hr(manifest),
                           zones |-> ZoneCounts(samples, max_hr(manifest))]
                 ELSE [fn |-> call.fn, pc |-> "err", session_id |-> call.session_id,
                       error |-> "db"]
    /\ UNCHANGED <<manifest, db, schema, folder, ext, scans, ingestVars>>

NextIntensity == get_workout_intensity \/ FetchWorkout \/ FetchSamples

SpecIntensity == InitIntensity /\ [][NextIntensity]_vars

----------------------------------------------------------------------------
(* The query layer: get_recovery_analysis and get_db_summary (src/src/db.rs) *)

\* A rational number n/d, d > 0: the f64 values of the analysis, in exact arithmetic.
Rat(n, d) == [n |-> n, d |-> d]

RatLess(x, y) == x.n * y.d < y.n * x.d

RatMinus(x, y) == Rat(x.n * y.d - y.n * x.d, x.d * y.d)

RatTimes(k, x) == Rat(k * x.n, x.d)

\* x / y for y > 0.
RatOver(x, y) == Rat(x.n * y.d, x.d * y.n)

\* f64::clamp(0.0, 100.0)
clamp(x) == IF x.n < 0 THEN Rat(0, 1) ELSE IF x.n > 100 * x.d THEN Rat(100, 1) ELSE x

\* f64::round of a value that is not negative: half away from zero.
round(x) == (2 * x.n + x.d) \div (2 * x.d)

\* A row of vitals: HRV, resting heart rate (0 where the row has none), and how many
\* days before now its start_date lies.
RecoveryRow(hrv_sdnn, resting_hr, age) ==
    [hrv_sdnn |-> hrv_sdnn, resting_hr |-> resting_hr, age |-> age]

RecoveryPool ==
    << RecoveryRow(60, 55, 0), RecoveryRow(40, 45, 3), RecoveryRow(30, 0, 0),
       RecoveryRow(0, 60, 3), RecoveryRow(100, 40, 10) >>

\* The four queries, in the order of the code: the local they set and their window.
RecoveryQueries ==
    << [local |-> "baseline_hrv", column |-> "hrv_sdnn", days |-> 7],
       [local |-> "current_hrv", column |-> "hrv_sdnn", days |-> 1],
       [local |-> "baseline_rhr", column |-> "resting_hr", days |-> 7],
       [local |-> "current_rhr", column |-> "resting_hr", days |-> 1] >>

\* SELECT AVG(column) FROM vitals WHERE column > 0 AND start_date >= date('now', '-days days'),
\* decoded as (f64,): the average, or an error when it is NULL (no row).
RECURSIVE SumOf(_, _)
SumOf(rows, column) ==
    IF rows = <<>> THEN 0 ELSE Head(rows)[column] + SumOf(Tail(rows), column)

SelectAvg(rows, q) ==
    LET sel == SelectSeq(rows, LAMBDA r : r[q.column] > 0 /\ r.age <= q.days)
    IN  IF sel = <<>> THEN [ok |-> FALSE, value |-> Rat(0, 1)]
        ELSE [ok |-> TRUE, value |-> Rat(SumOf(sel, q.column), Len(sel))]

\* fetch_one(pool).await.unwrap_or((0.0,))
unwrap_or(result, default) == IF result.ok THEN result.value ELSE default

\* if current_rhr > baseline_rhr && baseline_rhr > 0.0 { score -= diff * 5.0 }
Penalty(score, baseline_rhr, current_rhr) ==
    IF RatLess(baseline_rhr, current_rhr) /\ baseline_rhr.n > 0
    THEN RatMinus(score, RatTimes(5, RatMinus(current_rhr, baseline_rhr)))
    ELSE score

\* The recovery logic: the raw score, the penalty, clamp and round.
final_score(l) ==
    LET score == IF l.baseline_hrv.n > 0
                 THEN RatTimes(100, RatOver(l.current_hrv, l.baseline_hrv))
                 ELSE Rat(0, 1)
    IN  round(clamp(Penalty(score, l.baseline_rhr, l.current_rhr)))

status(s) ==
    IF s > 80 THEN "Optimal"
    ELSE IF s > 50 THEN "Good"
    ELSE IF s > 30 THEN "Strained"
    ELSE "Recovery Needed"

InitAnalytics ==
    /\ manifest = [tables |-> ManifestHealth.tables, batch_size |-> <<>>]
    /\ \E S \in SUBSET DOMAIN RecoveryPool :
         db = [t \in Tables(manifest) |-> IF t = "vitals" THEN Pick(RecoveryPool, S) ELSE <<>>]
    /\ schema = [t \in Tables(manifest) |-> FreshSchema(manifest, t)]
    /\ folder = <<>>
    /\ ext = NoExt
    /\ scans = <<>>
    /\ call = NoCall
    /\ IngestIdle

\* GET /api/analysis/recovery
get_recovery_analysis ==
    /\ call.pc = "idle"
    /\ call' = [fn |-> "get_recovery_analysis", pc |-> "query", q |-> 1, failed |-> {},
                locals |-> <<>>]
    /\ UNCHANGED <<manifest, db, schema, folder, ext, scans, ingestVars>>

\* One of the four queries (history: failed, the queries that returned an error other
\* than the NULL average); after the last one the score is computed and returned.
RecoveryQuery ==
    /\ call.fn = "get_recovery_analysis"
    /\ call.pc = "query"
    /\ \E ok \in BOOLEAN :
         LET q      == RecoveryQueries[call.q]
             result == IF ok THEN SelectAvg(db.vitals, q)
                       ELSE [ok |-> FALSE, value |-> Rat(0, 1)]
             value  == unwrap_or(result, Rat(0, 1))
             l      == (q.local :> value) @@ call.locals
             failed == IF ok THEN call.failed ELSE call.failed \cup {q.local}
         IN  call' = IF call.q < Len(RecoveryQueries)
                     THEN [call EXCEPT !.q = @ + 1, !.locals = l, !.failed = failed]
                     ELSE [fn |-> call.fn, pc |-> "ok", failed |-> failed, locals |-> l,
                           recovery_score |-> final_score(l),
                           status |-> status(final_score(l))]
    /\ UNCHANGED <<manifest, db, schema, folder, ext, scans, ingestVars>>

\* GET /api/summary
get_db_summary ==
    /\ call.pc = "idle"
    /\ call' = [fn |-> "get_db_summary", pc |-> "count", todo |-> Tables(manifest),
                failed |-> {}, table_counts |-> <<>>]
    /\ UNCHANGED <<manifest, db, schema, folder, ext, scans, ingestVars>>

\* SELECT COUNT(*) FROM table ... unwrap_or((0,)), for the next table of the manifest;
\* after the last one fs::metadata("health.db")? gives the size or the error.
SummaryCount ==
    /\ call.fn = "get_db_summary"
    /\ call.pc = "count"
    /\ \E ok \in BOOLEAN :
         IF call.todo = {}
         THEN call' = IF ok THEN [call EXCEPT !.pc = "ok"] ELSE [call EXCEPT !.pc = "err"]
         ELSE \E t \in call.todo :
                LET count == unwrap_or([ok |-> ok, value |-> Len(db[t])], 0)
                IN  call' = [call EXCEPT !.todo = @ \ {t},
                                         !.table_counts = (t :> count) @@ @,
                                         !.failed = IF ok THEN @ ELSE @ \cup {t}]
    /\ UNCHANGED <<manifest, db, schema, folder, ext, scans, ingestVars>>

NextAnalytics == get_recovery_analysis \/ RecoveryQuery \/ get_db_summary \/ SummaryCount

SpecAnalytics == InitAnalytics /\ [][NextAnalytics]_vars

----------------------------------------------------------------------------
(* Properties *)

Last(q) == q[Len(q)]

\* Both runs returned Ok.
BothOk(r1, r2) ==
    /\ r1 \in DOMAIN results /\ r2 \in DOMAIN results /\ r1 < r2
    /\ results[r1].outcome = "ok" /\ results[r2].outcome = "ok"

\* The tables Records are written to.
RecordTables(m) == {record_map(m)[hk][1] : hk \in DOMAIN record_map(m)}

\* The tables as one flush leaves them when all its statements and its commit succeed.
AllApplied(before, bufs) ==
    [t \in DOMAIN before |->
        IF t \in DOMAIN bufs
        THEN InsertAll(before[t], PrimaryKey(manifest, t), bufs[t])
        ELSE before[t]]

\* The element stages a DataPoint: a Record of a mapped type, an ActivitySummary or
\* a Workout whose table has a buffer.
Counted(e, m) ==
    \/ /\ e.name = "Record"
       /\ e.kind \in {"Empty", "Start"}
       /\ \E t \in Tables(m) : \E c \in ColumnSet(m, t) :
             /\ c.hk_identifier # None
             /\ c.extraction_source \in {None, "value"}
             /\ Str(c.hk_identifier) = AttrValue(e.attrs, "type")
    \/ /\ e.name = "ActivitySummary"
       /\ e.kind = "Empty"
       /\ "activity_summaries" \in Tables(m)
       /\ Len(Columns(m, "activity_summaries")) > 0
    \/ /\ e.name = "Workout"
       /\ e.kind = "Start"
       /\ "workouts" \in Tables(m)
       /\ Len(Columns(m, "workouts")) > 0

\* The events the loop reads: those before the first reader error or unterminated element.
RECURSIVE EventsRead(_)
EventsRead(f) ==
    IF f = <<>> THEN <<>>
    ELSE IF Head(f).kind = "Err" THEN <<>>
    ELSE IF ~Head(f).closed THEN <<Head(f)>>
    ELSE <<Head(f)>> \o EventsRead(Tail(f))

\* C1: once a job's entry holds Completed or Failed, no later write changes it.
C1_TerminalEntryIsNeverReplaced ==
    [][\A j \in DOMAIN jobs : IsTerminal(jobs[j]) => jobs'[j] = jobs[j]]_vars

\* C2: every job ends Completed or Failed: once the background task and the progress
\* tasks have all stopped, no job is left Processing.
C2_NoJobStaysProcessing ==
    (pc \in {"idle", "panic"} /\ tasks = {}) => \A j \in DOMAIN jobs : IsTerminal(jobs[j])

\* C3: after two completed ingestions of the same file every manifest table has as
\* many rows as after the first.
C3_ReingestKeepsRowCounts ==
    \A r1, r2 \in DOMAIN results :
        BothOk(r1, r2) =>
            \A t \in Tables(manifest) : Len(results[r2].db[t]) = Len(results[r1].db[t])

\* C4: every stored Record row carries the uuid computed from (table, column, normalized
\* start, normalized end, value), and completed re-ingestions of a file of Records
\* leave the rows of every record table as they were after the first.
C4_RecordRowsStableUnderReingest ==
    /\ \A t \in RecordTables(manifest) : \A i \in DOMAIN db[t] :
          \E hk \in DOMAIN record_map(manifest) :
              LET col == record_map(manifest)[hk][2]
                  row == db[t][i]
              IN  /\ record_map(manifest)[hk][1] = t
                  /\ {"uuid", "start_date", "end_date", col} \subseteq DOMAIN row
                  /\ row["start_date"] = normalize_date(row["start_date"])
                  /\ row["end_date"] = normalize_date(row["end_date"])
                  /\ row["uuid"] = Sha256(Str(t) \o Str(col) \o row["start_date"]
                                            \o row["end_date"] \o row[col])
    /\ \A r1, r2 \in DOMAIN results :
          BothOk(r1, r2) =>
              \A t \in RecordTables(manifest) : results[r2].db[t] = results[r1].db[t]

\* C4 witness: two completed ingestions of a file with a repeated Record, rows stored.
C4_Witness ==
    /\ BothOk(1, 2)
    /\ \E t \in RecordTables(manifest) :
          Len(results[2].db[t]) >= 1 /\ Len(results[2].db[t]) < Len(file)
    /\ \A i \in DOMAIN file : Counted(file[i], manifest)

\* C5: a flush is all or nothing: while it is open or after it failed the committed
\* tables are those before it; after its commit they hold all of its rows.
C5_FlushIsAtomic ==
    /\ flushing.state \in {"open", "failed"} => db = flushing.before
    /\ flushing.state = "committed" => db = AllApplied(flushing.before, flushing.rows)

\* C5 witness: a flush failed after some of its statements had executed.
C5_Witness ==
    /\ flushing.state = "failed"
    /\ flushing.n >= 1
    /\ batch_count(flushing.rows) >= 2
    /\ pc = "err"

\* C6: after a failed flush no further event is read, no flush is begun, and the job
\* ends Failed with the database error.
C6_FlushFailureFailsTheJob ==
    flushing.state = "failed" =>
        /\ pos = flushing.pos
        /\ pc \in {"err", "idle"}
        /\ pc = "idle" => jobs[run] = Failed("db")

\* C7: the values passed to on_progress never decrease, each is the number of data
\* points flushed so far, and none exceeds the returned count.
C7_ProgressIsMonotoneAndExact ==
    /\ \A i \in DOMAIN reported :
          /\ reported[i].value = reported[i].flushed
          /\ i > 1 => reported[i - 1].value <= reported[i].value
    /\ \A r \in DOMAIN results :
          results[r].outcome = "ok" =>
              \A i \in DOMAIN reported : reported[i].value <= results[r].count

\* C7 witness: a call that returned after reporting two different counts.
C7_Witness ==
    /\ 1 \in DOMAIN results
    /\ results[1].outcome = "ok"
    /\ Len(reported) >= 2
    /\ reported[1].value < reported[2].value

\* C8: when data points were staged, the last value passed to on_progress is the
\* returned count.
C8_LastProgressIsTheCount ==
    \A r \in DOMAIN results :
        (results[r].outcome = "ok" /\ staged >= 1) =>
            /\ reported # <<>>
            /\ Last(reported).value = results[r].count

\* C9: a successful call returns the number of elements that stage a data point:
\* mapped Records, ActivitySummaries and Workouts whose table has a buffer.
C9_CountIsTheNumberStaged ==
    pc = "ok" =>
        /\ total_count = Len(SelectSeq(EventsRead(file), LAMBDA e : Counted(e, manifest)))
        /\ total_count = staged

\* C9 witness: a successful call whose data points were flushed in several batches,
\* on a file with a Record of an unmapped type.
C9_Witness ==
    /\ pc = "ok"
    /\ reported # <<>>
    /\ total_count >= 2
    /\ \E i \in DOMAIN file : file[i].name = "Record" /\ ~Counted(file[i], manifest)

\* C10: a parse that met malformed XML returns an error, and its job is not Completed.
C10_XmlErrorFailsTheJob ==
    \A r \in DOMAIN results :
        results[r].xml_error =>
            /\ results[r].outcome = "err"
            /\ jobs[r].status # "completed"

\* C12: schema reconciliation only adds.  At every point of ensure_schema each table
\* that existed keeps its columns (those the manifest no longer lists included) in
\* place, its rows and their values in those columns; and when ensure_schema returns
\* Ok every manifest table has every manifest column.
C12_ReconciliationOnlyAdds ==
    call.fn = "ensure_schema" =>
        /\ \A t \in DOMAIN call.before.schema :
             LET old == call.before.schema[t]
             IN  /\ t \in DOMAIN schema
                 /\ Len(schema[t]) >= Len(old)
                 /\ \A i \in DOMAIN old : schema[t][i] = old[i]
                 /\ Len(db[t]) = Len(call.before.db[t])
                 /\ \A i \in DOMAIN call.before.db[t] : \A c \in Range(old) :
                        db[t][i][c] = call.before.db[t][i][c]
        /\ call.pc = "ok" =>
             \A t \in Tables(manifest) :
                 /\ t \in DOMAIN schema
                 /\ \A c \in ColumnSet(manifest, t) : c.field_name \in Range(schema[t])

\* C12 witness: ensure_schema returned Ok on a table that had rows, a column the
\* manifest does not list, and lacked a manifest column that it now has.
C12_Witness ==
    /\ call.fn = "ensure_schema"
    /\ call.pc = "ok"
    /\ \E t \in DOMAIN call.before.schema :
         /\ Len(call.before.db[t]) >= 1
         /\ "legacy" \in Range(call.before.schema[t])
         /\ Len(schema[t]) > Len(call.before.schema[t])

\* The entry of the route folder with the given name.
RouteFile(name) ==
    folder.routes[CHOOSE i \in DOMAIN folder.routes : folder.routes[i].name = name]

\* The number of route points stored under a file name.
StoredPoints(name) == Cardinality({i \in DOMAIN ext.routes : ext.routes[i].file_name = name})

HasReaderError(events) == \E i \in DOMAIN events : events[i].kind = "Err"

\* The closed <trkpt> elements of a file that precede the reader's first error.
PointsBeforeError(events) ==
    LET first == CHOOSE i \in DOMAIN events :
                     events[i].kind = "Err" /\ \A j \in 1..(i - 1) : events[j].kind # "Err"
    IN  Cardinality({i \in 1..(first - 1) : events[i].kind = "End" /\ events[i].name = "trkpt"})

\* C11: the import of a GPX file on which the reader reported an error is logged as
\* failed, and no track point behind the error is stored.
C11_ReaderErrorStopsTheFile ==
    \A s \in DOMAIN scans : \A i \in DOMAIN scans[s].log :
        LET entry == scans[s].log[i]
        IN  (entry.phase = "routes" /\ entry.outcome # "skipped"
                /\ HasReaderError(RouteFile(entry.file).content)) =>
                /\ entry.outcome = "err"
                /\ StoredPoints(entry.file)
                       <= PointsBeforeError(RouteFile(entry.file).content)

\* C15: a GPX file whose import failed has no route point stored.
C15_FailedRouteImportStoresNothing ==
    \A s \in DOMAIN scans : \A i \in DOMAIN scans[s].log :
        (scans[s].log[i].phase = "routes" /\ scans[s].log[i].outcome = "err") =>
            StoredPoints(scans[s].log[i].file) = 0

\* The rows of an external table stored under a file name.
RowsOf(rows, name) == SelectSeq(rows, LAMBDA r : r.file_name = name)

\* The file names recorded in an external table.
Recorded(rows) == {rows[i].file_name : i \in DOMAIN rows}

\* A scan that returned Ok and logged no failed import.
CleanScan(sc) ==
    /\ sc.pc = "done"
    /\ sc.result = "ok"
    /\ \A i \in DOMAIN sc.log : sc.log[i].outcome # "err"

TrackPoints(events) ==
    Cardinality({i \in DOMAIN events :
                    events[i].kind \in {"Start", "Empty"} /\ events[i].name = "trkpt"})

\* C14: under concurrent scans each ECG file has at most one row and each GPX file at
\* most one row per track point.
C14_FileNameIsAUniquenessKey ==
    /\ \A i \in DOMAIN folder.ecg : Len(RowsOf(ext.ecg, folder.ecg[i].name)) <= 1
    /\ \A i \in DOMAIN folder.routes :
          StoredPoints(folder.routes[i].name) <= TrackPoints(folder.routes[i].content)

\* The zone the rule assigns to a sample, from the bounds of each zone.
RuleZones(hr, max) ==
    {z \in ZoneNames :
        \/ z = "Z1_Recovery"  /\ 100 * hr < 60 * max
        \/ z = "Z2_Aerobic"   /\ 60 * max <= 100 * hr /\ 100 * hr < 70 * max
        \/ z = "Z3_Steady"    /\ 70 * max <= 100 * hr /\ 100 * hr < 80 * max
        \/ z = "Z4_Threshold" /\ 80 * max <= 100 * hr /\ 100 * hr < 90 * max
        \/ z = "Z5_Anaerobic" /\ 90 * max <= 100 * hr}

\* The rows of vitals inside the window of the workout, with a positive heart rate.
InWindow ==
    {i \in DOMAIN db.vitals :
        /\ db.vitals[i].heart_rate > 0
        /\ db.vitals[i].start_date >= WorkoutRow.start_date
        /\ db.vitals[i].start_date <= WorkoutRow.end_date}

ProfileMaxHr ==
    IF manifest.user_profile = <<>> THEN 190
    ELSE IF manifest.user_profile[1].max_heart_rate = <<>> THEN 190
    ELSE manifest.user_profile[1].max_heart_rate[1]

ZonesScenario ==
    /\ call.fn = "get_workout_intensity" /\ call.pc = "ok"
    /\ call.max_hr_used = 200
    /\ call.sample_count = 5
    /\ {call.samples[i] : i \in DOMAIN call.samples} = {100, 130, 150, 170, 190}

\* C17, as stated: the scenario yields Z1=1, Z2=0, Z3=1, Z4=1, Z5=2.
C17_ScenarioCountsAsStated ==
    ZonesScenario =>
        call.zones = [z \in ZoneNames |->
                         CASE z = "Z1_Recovery" -> 1 [] z = "Z2_Aerobic" -> 0
                           [] z = "Z3_Steady" -> 1 [] z = "Z4_Threshold" -> 1
                           [] OTHER -> 2]

\* C17, amended: the scenario yields one sample in each zone (130 is 65% of 200, in
\* Z2; 190 is the only sample at or above 90%).
C17_ScenarioCounts ==
    ZonesScenario => call.zones = [z \in ZoneNames |-> 1]

\* C17 witness: the scenario's result.
C17_Witness == ZonesScenario

\* The score as the claim computes it from the four values: 100 * current / baseline
\* HRV when the baseline is positive, minus 5 per beat whenever the current resting
\* heart rate exceeds the baseline, then clamped to [0, 100] and rounded.
ClaimedScore(l) ==
    LET raw       == IF l.baseline_hrv.n > 0
                     THEN Rat(100 * l.current_hrv.n * l.baseline_hrv.d,
                              l.current_hrv.d * l.baseline_hrv.n)
                     ELSE Rat(0, 1)
        penalised == IF RatLess(l.baseline_rhr, l.current_rhr)
                     THEN RatMinus(raw, RatTimes(5, RatMinus(l.current_rhr, l.baseline_rhr)))
                     ELSE raw
    IN  round(clamp(penalised))

\* C18: the recovery score is the claimed computation on the four values, an integer
\* in 0..100 (95 for baseline HRV 50, current HRV 60, baseline RHR 50, current RHR 55),
\* and the status follows the thresholds 80, 50 and 30.
C18_RecoveryScore ==
    (call.fn = "get_recovery_analysis" /\ call.pc = "ok") =>
        /\ call.recovery_score = ClaimedScore(call.locals)
        /\ call.recovery_score \in 0..100
        /\ (/\ call.locals.baseline_hrv = Rat(100, 2) /\ call.locals.current_hrv = Rat(60, 1)
            /\ call.locals.baseline_rhr = Rat(100, 2) /\ call.locals.current_rhr = Rat(55, 1))
               => call.recovery_score = 95
        /\ call.status = CASE call.recovery_score > 80 -> "Optimal"
                           [] call.recovery_score \in 51..80 -> "Good"
                           [] call.recovery_score \in 31..50 -> "Strained"
                           [] OTHER -> "Recovery Needed"

\* C20: an analytics operation in which a database query failed does not return a
\* successful result.
C20_FailedQueryIsReported ==
    (call.fn \in {"get_recovery_analysis", "get_db_summary"} /\ call.pc = "ok") =>
        call.failed = {}

----------------------------------------------------------------------------
(* CSV export (src/src/db.rs, export_table_to_csv; src/src/main.rs, export_data_handler) *)

\* The columns ensure_schema adds to the base columns of table t.
AddedColumns(m, t) ==
    SelectSeq(Columns(m, t), LAMBDA c : c.field_name \notin Range(BaseColumns(m, t)))

\* Row i of table t as ingestion leaves it: the base columns hold values; a column that
\* ensure_schema added holds its generated value, its own value, or NULL (sparse).
ExportRow(m, t, i, sparse) ==
    LET filled == StoredRow(FreshSchema(m, t), i)
        added  == AddedColumns(m, t)
        col(c) == CHOOSE j \in DOMAIN added : added[j].field_name = c
    IN  [c \in DOMAIN filled |->
            IF c \in Range(BaseColumns(m, t)) THEN filled[c]
            ELSE IF expression(added[col(c)]) # None
                 THEN GeneratedValue(expression(added[col(c)]))
            ELSE IF sparse THEN Null
            ELSE filled[c]]

\* The contents a manifest table can have when an export is requested.
ExportTables(m, t) ==
    {[i \in 1..n |-> ExportRow(m, t, i, sparse)] : n \in 0..MaxRows, sparse \in BOOLEAN}

\* A table name the manifest does not define.
UnknownTable == "sqlite_master"

\* try_get::<f64>, then ::<i64>, then ::<String>, else "": NULL decodes as none of the
\* three and becomes the empty field; a stored value becomes its text.
CsvField(v) == IF v = Null THEN "" ELSE v[2]

\* One CSV record: the row's columns in the table's column order.
CsvRecord(cols, row) == [i \in 1..Len(cols) |-> CsvField(row[cols[i]])]

\* The records csv::Writer received: nothing at all for an empty result, otherwise the
\* header (the column names of rows[0]) and one record per row.
WriteCsv(cols, rows) ==
    IF rows # <<>>
    THEN <<cols>> \o [i \in 1..Len(rows) |-> CsvRecord(cols, rows[i])]
    ELSE <<>>

InitExport ==
    /\ manifest \in SchemaManifests
    /\ schema = [t \in Tables(manifest) |-> FreshSchema(manifest, t)]
    /\ db \in [Tables(manifest) -> UNION {ExportTables(manifest, t) : t \in Tables(manifest)}]
    /\ \A t \in Tables(manifest) : db[t] \in ExportTables(manifest, t)
    /\ folder = <<>>
    /\ ext = NoExt
    /\ scans = <<>>
    /\ call = NoCall
    /\ IngestIdle

\* GET /api/export/{table}: a table the manifest does not define is refused before
\* export_table_to_csv is called.
export_data_handler ==
    /\ call.pc = "idle"
    /\ \E table \in Tables(manifest) \cup {UnknownTable} :
         call' = IF table \notin Tables(manifest)
                 THEN [fn |-> "export_data_handler", pc |-> "err", table_name |-> table]
                 ELSE [fn |-> "export_table_to_csv", pc |-> "fetch", table_name |-> table]
    /\ UNCHANGED <<manifest, db, schema, folder, ext, scans, ingestVars>>

\* export_table_to_csv: SELECT * FROM table (fetch_all may fail), then the CSV.
export_table_to_csv ==
    /\ call.fn = "export_table_to_csv"
    /\ call.pc = "fetch"
    /\ \E ok \in BOOLEAN :
         call' = IF ok
                 THEN [call EXCEPT !.pc = "ok"]
                          @@ [csv |-> WriteCsv(schema[call.table_name], db[call.table_name])]
                 ELSE [call EXCEPT !.pc = "err"]
    /\ UNCHANGED <<manifest, db, schema, folder, ext, scans, ingestVars>>

NextExport == export_data_handler \/ export_table_to_csv

SpecExport == InitExport /\ [][NextExport]_vars

\* C19: an export that succeeded returned a header row naming all columns of the table,
\* followed by exactly one row per stored record, whatever the table holds (an empty
\* table included).
C19_HeaderThenOneRowPerRecord ==
    (call.fn = "export_table_to_csv" /\ call.pc = "ok") =>
        /\ Len(call.csv) = 1 + Len(db[call.table_name])
        /\ call.csv[1] = schema[call.table_name]

----------------------------------------------------------------------------
(* Exports that end inside a <Workout> (src/src/parser.rs, the inner loop) *)

\* <Workout ...> <WorkoutStatistics .../> and then the end of the input.
WorkoutUnterminated == XmlStart("Workout", Workout.attrs, Workout.children, FALSE)

\* Complete exports, and exports cut off inside their last Workout.
TruncatedFiles ==
    LET whole == SeqsUpTo({RecordHeartRate, ActivitySummary, Workout}, MaxFileLen - 1)
    IN  whole \cup {Append(q, WorkoutUnterminated) : q \in whole}

InitTruncated == InitWith("direct", TruncatedFiles)

SpecTruncated == InitTruncated /\ [][NextParse]_vars

\* The input ends before the closing tag of its last Workout.
EndsInsideWorkout ==
    /\ file # <<>>
    /\ file[Len(file)].kind = "Start"
    /\ file[Len(file)].name = "Workout"
    /\ ~file[Len(file)].closed

\* The Workout elements of the file that are closed.
ClosedWorkouts == Len(SelectSeq(file, LAMBDA e : e.name = "Workout" /\ e.closed))

\* C24: when the input ends inside a <Workout>, parse_and_ingest reports an error (it
\* never returns Ok) and no row is staged or inserted for the unterminated workout: the
\* workouts staged and stored are those of the closed elements at most.
C24_EofInsideWorkoutIsAnError ==
    EndsInsideWorkout =>
        /\ pc # "ok"
        /\ "workouts" \in DOMAIN table_buffers =>
               Len(table_buffers["workouts"]) + Len(db["workouts"]) <= ClosedWorkouts

----------------------------------------------------------------------------
(* Exports with activity summaries (src/src/parser.rs, the ActivitySummary arm) *)

\* <ActivitySummary dateComponents=../>: no attribute is an hk_attribute of the manifest.
ActivitySummaryUnmapped ==
    XmlEmpty("ActivitySummary", << Attr("dateComponents", Str("2024-01-02")) >>)

SummaryFiles == SeqsUpTo({RecordHeartRate, ActivitySummary, ActivitySummaryUnmapped}, MaxFileLen)

InitSummaries == InitWith("direct", SummaryFiles)

SpecSummaries == InitSummaries /\ [][NextParse]_vars

\* C29: every staged DataPoint carries at least one column, so no INSERT built by
\* flush_buffers has an empty column list, and no flush fails on a statement for it.
C29_StagedPointsHaveColumns ==
    /\ \A t \in DOMAIN table_buffers : \A i \in DOMAIN table_buffers[t] :
          DOMAIN table_buffers[t][i].columns # {}
    /\ \A t \in DOMAIN table_buffers : \A i \in DOMAIN table_buffers[t] :
          ~InsertFails(manifest, t, table_buffers[t][i].columns)

\* The element has no target table in manifest m: a Record of an unmapped type, an
\* ActivitySummary or a Workout whose table the manifest does not define.
Untargeted(e, m) ==
    /\ e.kind \in {"Empty", "Start"}
    /\ e.name \in {"Record", "ActivitySummary", "Workout"}
    /\ ~Counted(e, m)

\* C30: elements without a target table are skipped: on an export made of such elements
\* parse_and_ingest neither fails nor aborts, stages nothing and counts nothing.
C30_UntargetedElementsAreSkipped ==
    (\A i \in DOMAIN file : Untargeted(file[i], manifest)) =>
        /\ pc \notin {"err", "panic"}
        /\ staged = 0
        /\ total_count = 0

\* C27: the progress stored in a job's Processing entry never decreases: no step takes
\* an entry from Processing{p} to Processing{q} with q < p.
C27_ProgressNeverDecreases ==
    [][\A j \in DOMAIN jobs :
          (jobs[j].status = "processing" /\ jobs'[j].status = "processing")
              => jobs'[j].progress >= jobs[j].progress]_vars

\* C26: after a successful import of a well-formed GPX file the rows stored under its
\* file_name are as many as its <trkpt> elements, each with the point's lat and lon and
\* the empty string for a mapped tag the point lacks.
C26_OneRowPerTrackPoint ==
    \A s \in DOMAIN scans : \A i \in DOMAIN scans[s].log :
        LET entry == scans[s].log[i]
        IN  (entry.phase = "routes" /\ entry.outcome = "ok"
                /\ ~HasReaderError(RouteFile(entry.file).content)) =>
                /\ StoredPoints(entry.file) = TrackPoints(RouteFile(entry.file).content)
                /\ \A r \in DOMAIN ext.routes :
                      ext.routes[r].file_name = entry.file =>
                          /\ ext.routes[r].latitude = LatLon[1][2]
                          /\ ext.routes[r].longitude = LatLon[2][2]
                          /\ ext.routes[r].elevation \in {Str("12"), Empty}

----------------------------------------------------------------------------
(* init_db under a manifest that lists a field_name twice (src/src/db.rs, ensure_schema) *)

\* A manifest whose table maps two record types to the same column.
ManifestRepeated ==
    [tables |-> [t \in {"vitals"} |->
        << ColumnDefinition("heart_rate", "HKQuantityTypeIdentifierHeartRate", None, FALSE, "value"),
           ColumnDefinition("heart_rate", "HKQuantityTypeIdentifierRestingHeartRate", None, FALSE,
                            "value"),
           ColumnDefinition("step_count", "HKQuantityTypeIdentifierStepCount", None, FALSE, "value") >>],
     batch_size |-> <<>>]

InitRepeated ==
    /\ manifest \in {ManifestRepeated, ManifestKeyed}
    /\ \E d \in Databases(manifest) :
         /\ schema = [t \in DOMAIN d |-> d[t].cols]
         /\ db = [t \in DOMAIN d |-> [i \in 1..d[t].n |-> StoredRow(d[t].cols, i)]]
    /\ IngestIdle
    /\ folder = <<>>
    /\ ext = NoExt
    /\ scans = <<>>
    /\ call = NoCall

SpecRepeated == InitRepeated /\ [][NextSchema]_vars

\* ensure_schema is about to issue ALTER TABLE ADD COLUMN for the column at call.col.
IssuesAlter ==
    /\ call.fn = "ensure_schema"
    /\ call.pc = "alter"
    /\ call.col <= Len(Columns(manifest, call.table))
    /\ Columns(manifest, call.table)[call.col].field_name \notin call.existing_columns

\* C28: ensure_schema never issues ALTER TABLE ADD COLUMN for a column name the table
\* contains at the moment the statement runs, whatever the manifest.
C28_NoAlterForAnExistingColumn ==
    IssuesAlter =>
        Columns(manifest, call.table)[call.col].field_name \notin Range(schema[call.table])

----------------------------------------------------------------------------
(* normalize_date on its own (src/src/parser.rs) *)

\* Timestamps as an export writes them, in every offset of the model.
HkDates == {HkDate(c, s, o) : c \in 0..MaxHour, s \in {"+", "-"}, o \in 0..MaxOffset}

\* The inputs normalize_date is given: export timestamps, RFC3339 text, the empty
\* string (an absent attribute), a timestamp without its offset, other text.
DateInputs ==
    HkDates \cup {to_rfc3339(u) : u \in 0..MaxHour}
            \cup {Empty, <<"hk", "1", "+">>, Str("yesterday")}

\* <Record type=HeartRate value=60 startDate=d endDate=d/>
RecordAt(d) ==
    XmlEmpty("Record", << Attr("type", Str("HKQuantityTypeIdentifierHeartRate")),
                          Attr("startDate", d), Attr("endDate", d), Attr("value", Str("60")) >>)

InitDates ==
    /\ manifest = [tables |-> ManifestRecords.tables, batch_size |-> <<>>]
    /\ db = [t \in Tables(manifest) |-> <<>>]
    /\ IngestIdle
    /\ RestIdle

\* extract_record_data normalizes the dates of two Records and derives their uuids
\* (history: again, normalize_date applied to its own results).
NormalizeDates ==
    /\ call.pc = "idle"
    /\ \E a, b \in DateInputs :
         call' = [fn |-> "normalize_date", pc |-> "ok",
                  input |-> <<a, b>>,
                  output |-> <<normalize_date(a), normalize_date(b)>>,
                  again |-> <<normalize_date(normalize_date(a)),
                              normalize_date(normalize_date(b))>>,
                  uuid |-> <<extract_record_data(RecordAt(a), record_map(manifest)).columns["uuid"],
                             extract_record_data(RecordAt(b), record_map(manifest)).columns["uuid"]>>]
    /\ UNCHANGED <<manifest, db, schema, folder, ext, scans, ingestVars>>

SpecDates == InitDates /\ [][NormalizeDates]_vars

\* The instant an export timestamp denotes: its wall clock moved back by its offset.
InstantOf(d) == IF d[3] = "+" THEN ToNat(d[2]) - ToNat(d[4]) ELSE ToNat(d[2]) + ToNat(d[4])

----------------------------------------------------------------------------
(* The query layer: query_table and aggregate_table (src/src/db.rs) and their *)
(* handlers (src/src/main.rs)                                                 *)

DefaultLimit == 100

\* col.aggregate: "raw" when the manifest leaves it out (default_aggregate).
aggregate(c) == IF "aggregate" \in DOMAIN c THEN c.aggregate ELSE "raw"

\* A ColumnDefinition with the given aggregate.
Aggregated(c, agg) ==
    [f \in DOMAIN c \cup {"aggregate"} |-> IF f = "aggregate" THEN agg ELSE c[f]]

\* The manifest of tests/integration_tests.rs: heart_rate (avg) and step_count (sum).
ManifestAggregates ==
    [tables |-> [t \in {"records"} |->
        << Aggregated(ManifestRecords.tables["records"][1], "avg"),
           Aggregated(ManifestRecords.tables["records"][2], "sum") >>],
     batch_size |-> <<>>]

\* A stored row of records: start_date in hours since 2024-01-01T00:00Z, the two
\* measurements as <<>> (NULL) or <<n>>.
RecordRow(uuid, start_date, heart_rate, step_count) ==
    [uuid |-> <<uuid>>, start_date |-> <<start_date>>, heart_rate |-> heart_rate,
     step_count |-> step_count]

\* Stored Records: three in the hour 15 (heart rate 60 and 80, steps 500), others in
\* the next hour, late the same day and on the next day.
RecordPool ==
    << RecordRow(1, 15, <<60>>, <<>>), RecordRow(2, 15, <<80>>, <<>>),
       RecordRow(3, 15, <<>>, <<500>>), RecordRow(4, 16, <<75>>, <<>>),
       RecordRow(5, 23, <<>>, <<40>>), RecordRow(6, 39, <<>>, <<2>>) >>

\* A piece of the text of a SQL statement: written in the code, taken from the
\* manifest, or taken from the request.
Lit(text) == [text |-> text, origin |-> "code"]

FromManifest(text) == [text |-> text, origin |-> "manifest"]

FromRequest(text) == [text |-> text, origin |-> "request"]

\* query_parts.join(" AND ")
RECURSIVE JoinAnd(_)
JoinAnd(parts) ==
    IF parts = <<>> THEN <<>>
    ELSE IF Len(parts) = 1 THEN parts[1]
    ELSE parts[1] \o <<Lit(" AND ")>> \o JoinAnd(Tail(parts))

\* query_table: the statement text and its bound parameters.  table_name and sort_col
\* are the strings of the request; sort_by is "start_date" when no sort is given.
QueryTableSql(table_name, limit, sort_col, start, end) ==
    LET sort_by      == IF sort_col = <<>> THEN Lit("start_date") ELSE FromRequest(sort_col[1])
        query_parts  == (IF start # <<>> THEN << <<sort_by, Lit(" >= ?")>> >> ELSE <<>>)
                            \o (IF end # <<>> THEN << <<sort_by, Lit(" <= ?")>> >> ELSE <<>>)
        where_clause == IF query_parts = <<>> THEN <<>>
                        ELSE <<Lit("WHERE ")>> \o JoinAnd(query_parts)
    IN  [text  |-> <<Lit("SELECT * FROM "), FromRequest(table_name), Lit(" ")>> \o where_clause
                       \o <<Lit(" ORDER BY "), sort_by, Lit(" DESC LIMIT ?")>>,
         binds |-> start \o end \o <<limit>>]

\* A NULL sorts below every value.
SortKey(v) == IF v = <<>> THEN -1 ELSE v[1]

\* ORDER BY column DESC
RECURSIVE OrderByDesc(_, _)
OrderByDesc(rows, column) ==
    IF rows = <<>> THEN <<>>
    ELSE LET i == CHOOSE i \in DOMAIN rows :
                      \A j \in DOMAIN rows : SortKey(rows[j][column]) <= SortKey(rows[i][column])
         IN  <<rows[i]>> \o OrderByDesc(SubSeq(rows, 1, i - 1) \o SubSeq(rows, i + 1, Len(rows)),
                                        column)

\* WHERE column >= start AND column <= end, each test present when its bound is given;
\* a comparison with NULL is not true.
Where(rows, column, start, end) ==
    SelectSeq(rows, LAMBDA r :
        /\ start # <<>> => (r[column] # <<>> /\ r[column][1] >= start[1])
        /\ end # <<>> => (r[column] # <<>> /\ r[column][1] <= end[1]))

\* LIMIT n (a negative n is no limit)
Limit(rows, n) == IF n < 0 \/ n >= Len(rows) THEN rows ELSE SubSeq(rows, 1, n)

\* The rows query_table's statement selects when its sort column is a column of the table.
QueryTableRows(rows, limit, column, start, end) ==
    Limit(OrderByDesc(Where(rows, column, start, end), column), limit)

\* The match on bucket: the strftime format, or None for an unknown bucket.
time_fmt(bucket) ==
    CASE bucket = "hour"  -> "%Y-%m-%dT%H:00:00Z"
      [] bucket = "day"   -> "%Y-%m-%d"
      [] bucket = "month" -> "%Y-%m"
      [] OTHER -> None

\* strftime(fmt, start_date): the first hour of the hour, day or month (of 31 days)
\* the timestamp lies in; NULL for NULL.
strftime(fmt, start_date) ==
    IF start_date = <<>> THEN <<>>
    ELSE CASE fmt = "%Y-%m-%dT%H:00:00Z" -> <<start_date[1]>>
           [] fmt = "%Y-%m-%d" -> <<24 * (start_date[1] \div 24)>>
           [] fmt = "%Y-%m" -> <<744 * (start_date[1] \div 744)>>

\* The aggregates aggregate_table emits a select part for.
Aggregates == {"avg", "sum", "min", "max", "count"}

\* The columns of the table that are aggregated, in manifest order.
AggregatedColumns(m, t) == SelectSeq(Columns(m, t), LAMBDA c : aggregate(c) \in Aggregates)

\* aggregate_table: the statement text and its bound parameters.
AggregateSql(m, table_name, fmt, start, end) ==
    LET cols == AggregatedColumns(m, table_name)
        RECURSIVE parts(_)
        parts(i) ==
            IF i > Len(cols) THEN <<>>
            ELSE <<Lit(", "), Lit(cols[i].aggregate), Lit("("), FromManifest(cols[i].field_name),
                   Lit(") as "), FromManifest(cols[i].field_name)>> \o parts(i + 1)
        query_parts  == (IF start # <<>> THEN << <<Lit("start_date >= ?")>> >> ELSE <<>>)
                            \o (IF end # <<>> THEN << <<Lit("start_date <= ?")>> >> ELSE <<>>)
        where_clause == IF query_parts = <<>> THEN <<>>
                        ELSE <<Lit("WHERE ")>> \o JoinAnd(query_parts)
    IN  [text  |-> <<Lit("SELECT strftime('"), Lit(fmt), Lit("', start_date) as time_bucket")>>
                       \o parts(1) \o <<Lit(" FROM "), FromRequest(table_name), Lit(" ")>>
                       \o where_clause
                       \o <<Lit(" GROUP BY time_bucket ORDER BY time_bucket DESC")>>,
         binds |-> start \o end]

\* The non-NULL values of a column in the rows of a group.
RECURSIVE NonNull(_, _)
NonNull(rows, column) ==
    IF rows = <<>> THEN <<>>
    ELSE Head(rows)[column] \o NonNull(Tail(rows), column)

RECURSIVE Total(_)
Total(values) == IF values = <<>> THEN 0 ELSE Head(values) + Total(Tail(values))

\* A faulty variant of SqlAvg, for contrast: the sum is divided by the number of rows.
SqlAvgOverRows(rows, column) ==
    IF NonNull(rows, column) = <<>> THEN <<>>
    ELSE <<Rat(Total(NonNull(rows, column)), Len(rows))>>

\* AVG(column): NULL values are left out; NULL when there is no other.
SqlAvg(rows, column) ==
    IF NonNull(rows, column) = <<>> THEN <<>>
    ELSE <<Rat(Total(NonNull(rows, column)), Len(NonNull(rows, column)))>>

\* SUM(column): NULL values are left out; NULL when there is no other.
SqlSum(rows, column) ==
    IF NonNull(rows, column) = <<>> THEN <<>> ELSE <<Total(NonNull(rows, column))>>

\* MIN(column), MAX(column), COUNT(column)
SqlMin(rows, column) ==
    LET v == NonNull(rows, column)
    IN  IF v = <<>> THEN <<>> ELSE <<CHOOSE x \in Range(v) : \A y \in Range(v) : x <= y>>

SqlMax(rows, column) ==
    LET v == NonNull(rows, column)
    IN  IF v = <<>> THEN <<>> ELSE <<CHOOSE x \in Range(v) : \A y \in Range(v) : x >= y>>

SqlCount(rows, column) == <<Len(NonNull(rows, column))>>

\* AGG(col) for the column's aggregate.
Aggregate(agg, rows, column) ==
    CASE agg = "avg" -> SqlAvg(rows, column)
      [] agg = "sum" -> SqlSum(rows, column)
      [] agg = "min" -> SqlMin(rows, column)
      [] agg = "max" -> SqlMax(rows, column)
      [] agg = "count" -> SqlCount(rows, column)

\* GROUP BY time_bucket ORDER BY time_bucket DESC: the buckets, the last one first.
RECURSIVE BucketsDesc(_)
BucketsDesc(buckets) ==
    IF buckets = {} THEN <<>>
    ELSE LET b == CHOOSE b \in buckets : \A c \in buckets : SortKey(c) <= SortKey(b)
         IN  <<b>> \o BucketsDesc(buckets \ {b})

\* The result of aggregate_table's statement, as the loop over the rows returns it:
\* one map per group with time_bucket and one entry per aggregated column.
AggregateRows(rows, cols, fmt, start, end) ==
    LET sel     == Where(rows, "start_date", start, end)
        buckets == BucketsDesc({strftime(fmt, sel[i].start_date) : i \in DOMAIN sel})
        group(b) == SelectSeq(sel, LAMBDA r : strftime(fmt, r.start_date) = b)
    IN  [k \in DOMAIN buckets |->
            [f \in {"time_bucket"} \cup {cols[i].field_name : i \in DOMAIN cols} |->
                IF f = "time_bucket" THEN buckets[k]
                ELSE LET c == cols[CHOOSE i \in DOMAIN cols : cols[i].field_name = f]
                     IN  Aggregate(aggregate(c), group(buckets[k]), f)]]

\* A sort parameter that is no column name.
InjectedSort == "(SELECT COUNT(*) FROM sqlite_master)"

InitQuery ==
    /\ manifest = ManifestAggregates
    /\ \E S \in SUBSET DOMAIN RecordPool :
         db = [t \in Tables(manifest) |-> Pick(RecordPool, S)]
    /\ IngestIdle
    /\ RestIdle

\* GET /api/data/{table}?limit&sort&start&end: the table is looked up in the manifest,
\* then query_table builds its statement.
get_data_handler ==
    /\ call.pc = "idle"
    /\ \E table \in Tables(manifest) \cup {UnknownTable},
          limit \in {<<>>, <<1>>},
          sort \in {<<>>, <<"start_date">>, <<"heart_rate">>, <<InjectedSort>>},
          start \in {<<>>, <<16>>}, end \in {<<>>, <<23>>} :
         call' = IF table \notin Tables(manifest)
                 THEN [fn |-> "get_data_handler", pc |-> "err", table_name |-> table]
                 ELSE [fn |-> "query_table", pc |-> "fetch", table_name |-> table,
                       limit |-> IF limit = <<>> THEN DefaultLimit ELSE limit[1],
                       sort_col |-> sort, start |-> start, end |-> end,
                       sql |-> QueryTableSql(table,
                                             IF limit = <<>> THEN DefaultLimit ELSE limit[1],
                                             sort, start, end)]
    /\ UNCHANGED <<manifest, db, schema, folder, ext, scans, ingestVars>>

\* query_table: fetch_all.  A sort_by that names a column of the table selects, orders
\* and limits by it; any other text is SQLite's to reject or to evaluate.
query_table ==
    /\ call.fn = "query_table"
    /\ call.pc = "fetch"
    /\ LET sort_by == IF call.sort_col = <<>> THEN "start_date" ELSE call.sort_col[1]
           rows    == db[call.table_name]
       IN  \E ok \in BOOLEAN :
             IF ~ok THEN call' = [call EXCEPT !.pc = "err"]
             ELSE IF sort_by \in Range(schema[call.table_name])
             THEN call' = [call EXCEPT !.pc = "ok"]
                              @@ [results |-> QueryTableRows(rows, call.limit, sort_by,
                                                             call.start, call.end)]
             ELSE \E all \in BOOLEAN :
                    call' = [call EXCEPT !.pc = "ok"]
                                @@ [results |-> IF all THEN Limit(rows, call.limit) ELSE <<>>]
    /\ UNCHANGED <<manifest, db, schema, folder, ext, scans, ingestVars>>

\* GET /api/aggregate/{table}?bucket&start&end: the table is looked up in the manifest,
\* aggregate_table rejects an unknown bucket and builds its statement.
aggregate_handler ==
    /\ call.pc = "idle"
    /\ \E table \in Tables(manifest) \cup {UnknownTable},
          bucket \in {"hour", "day", "month", "week"},
          start \in {<<>>, <<16>>}, end \in {<<>>, <<23>>} :
         call' = IF table \notin Tables(manifest)
                 THEN [fn |-> "aggregate_handler", pc |-> "err", table_name |-> table]
                 ELSE IF time_fmt(bucket) = None
                 THEN [fn |-> "aggregate_table", pc |-> "err", table_name |-> table,
                       bucket |-> bucket]
                 ELSE [fn |-> "aggregate_table", pc |-> "fetch", table_name |-> table,
                       bucket |-> bucket, start |-> start, end |-> end,
                       sql |-> AggregateSql(manifest, table, time_fmt(bucket), start, end)]
    /\ UNCHANGED <<manifest, db, schema, folder, ext, scans, ingestVars>>

\* aggregate_table: fetch_all and the loop over the rows.
aggregate_table ==
    /\ call.fn = "aggregate_table"
    /\ call.pc = "fetch"
    /\ \E ok \in BOOLEAN :
         call' = IF ok
                 THEN [call EXCEPT !.pc = "ok"]
                          @@ [results |-> AggregateRows(db[call.table_name],
                                             AggregatedColumns(manifest, call.table_name),
                                             time_fmt(call.bucket), call.start, call.end)]
                 ELSE [call EXCEPT !.pc = "err"]
    /\ UNCHANGED <<manifest, db, schema, folder, ext, scans, ingestVars>>

NextQuery == get_data_handler \/ query_table \/ aggregate_handler \/ aggregate_table

SpecQuery == InitQuery /\ [][NextQuery]_vars

\* The names the manifest knows: its tables and their columns.
ManifestNames(m) == Tables(m) \cup UNION {TableColumns(m, t) : t \in Tables(m)}

\* C21: every piece of a statement's text that comes from the request is a table or
\* column name of the manifest; other request strings are bound parameters only.
C21_RequestTextIsManifestKnown ==
    "sql" \in DOMAIN call =>
        \A i \in DOMAIN call.sql.text :
            call.sql.text[i].origin = "request" =>
                call.sql.text[i].text \in ManifestNames(manifest)

\* The first hour of the bucket an hour lies in.
BucketStart(bucket, h) ==
    CASE bucket = "hour" -> h
      [] bucket = "day" -> h - (h % 24)
      [] bucket = "month" -> h - (h % 744)

\* The stored rows (by index) an aggregate_table call is about: those inside its window.
InWindowRows(c) ==
    {i \in DOMAIN db[c.table_name] :
        LET h == db[c.table_name][i].start_date[1]
        IN  /\ c.start # <<>> => h >= c.start[1]
            /\ c.end # <<>> => h <= c.end[1]}

\* The sum of a column over the rows with the indices in S (all non-null there).
RECURSIVE SumOver(_, _, _)
SumOver(rows, column, S) ==
    IF S = {} THEN 0
    ELSE LET i == CHOOSE i \in S : TRUE
         IN  rows[i][column][1] + SumOver(rows, column, S \ {i})

\* C22: aggregate_table returns one row per distinct time bucket of the stored rows,
\* and in it heart_rate (avg) is the mean and step_count (sum) the sum of the non-null
\* stored values of the bucket (null when the bucket has none); the Records of hour 15
\* (heart rate 60 and 80, steps 500) give heart_rate 70 and step_count 500.
C22_AggregatesAreExact ==
    (call.fn = "aggregate_table" /\ call.pc = "ok") =>
        LET rows   == db[call.table_name]
            sel    == InWindowRows(call)
            of(i)  == BucketStart(call.bucket, rows[i].start_date[1])
            res    == call.results
        IN  /\ Len(res) = Cardinality({of(i) : i \in sel})
            /\ \A k, l \in DOMAIN res : res[k].time_bucket = res[l].time_bucket => k = l
            /\ \A k \in DOMAIN res :
                  LET in  == {i \in sel : <<of(i)>> = res[k].time_bucket}
                      hr  == {i \in in : rows[i].heart_rate # <<>>}
                      st  == {i \in in : rows[i].step_count # <<>>}
                  IN  /\ in # {}
                      /\ IF hr = {} THEN res[k].heart_rate = <<>>
                         ELSE /\ res[k].heart_rate # <<>>
                              /\ res[k].heart_rate[1].n * Cardinality(hr)
                                     = res[k].heart_rate[1].d * SumOver(rows, "heart_rate", hr)
                      /\ IF st = {} THEN res[k].step_count = <<>>
                         ELSE res[k].step_count = <<SumOver(rows, "step_count", st)>>
            /\ (call.bucket = "hour" /\ Len(res) = 1 /\ rows = SubSeq(RecordPool, 1, 3)
                   /\ sel = DOMAIN rows) =>
                   /\ res[1].heart_rate[1].n = 70 * res[1].heart_rate[1].d
                   /\ res[1].step_count = <<500>>

\* C22 witness: the three Records of hour 15 were aggregated by the hour into one row.
C22_Witness ==
    /\ call.fn = "aggregate_table" /\ call.pc = "ok"
    /\ call.bucket = "hour"
    /\ db[call.table_name] = SubSeq(RecordPool, 1, 3)
    /\ Len(call.results) = 1
    /\ call.results[1].time_bucket = <<15>>
    /\ call.results[1].heart_rate # <<>>

----------------------------------------------------------------------------
(* R-peak detection (src/src/importer.rs, calculate_ecg_hr) *)

\* Voltages of the model, and sampling rates in Hz (0: an unusable rate).
Voltages == {0, 1, 2}

SampleRates == {0, 5, 10}

\* val > threshold, for threshold = mean + (max - mean) * 0.6, in exact arithmetic:
\* 10 * n * val > 4 * sum + 6 * n * max.
AboveThreshold(val, samples) ==
    LET n   == Len(samples)
        max == CHOOSE x \in Range(samples) : \A y \in Range(samples) : y <= x
    IN  10 * n * val > 4 * Total(samples) + 6 * n * max

\* (0.2 * sample_rate) as usize
refractory_samples(sample_rate) == (2 * sample_rate) \div 10

\* The loop over samples.iter().enumerate() from index i (indices count from 0):
\* peak_indices, given the peaks found so far and last_peak.
RECURSIVE peak_indices(_, _, _, _, _)
peak_indices(samples, w, i, last_peak, found) ==
    IF i >= Len(samples) THEN found
    ELSE IF AboveThreshold(samples[i + 1], samples) /\ (i - last_peak > w \/ last_peak = 0)
    THEN peak_indices(samples, w, i + 1, i, Append(found, i))
    ELSE peak_indices(samples, w, i + 1, last_peak, found)

\* 60 / avg_rr for the intervals between consecutive peaks, 0 with fewer than two
\* peaks: 60 * sample_rate * (number of intervals) / (last peak - first peak).
HeartRate(peaks, sample_rate) ==
    IF Len(peaks) < 2 THEN Rat(0, 1)
    ELSE Rat(60 * sample_rate * (Len(peaks) - 1), peaks[Len(peaks)] - peaks[1])

InitEcg ==
    /\ manifest \in ImportManifests
    /\ db = [t \in Tables(manifest) |-> <<>>]
    /\ IngestIdle
    /\ RestIdle

\* process_single_ecg calls calculate_ecg_hr on the numeric samples of a recording.
calculate_ecg_hr ==
    /\ call.pc = "idle"
    /\ \E samples \in SeqsUpTo(Voltages, MaxSamples), sample_rate \in SampleRates :
         call' = IF samples = <<>> \/ sample_rate <= 0
                 THEN [fn |-> "calculate_ecg_hr", pc |-> "ok", samples |-> samples,
                       sample_rate |-> sample_rate, peak_indices |-> <<>>,
                       calculated_hr |-> Rat(0, 1)]
                 ELSE LET peaks == peak_indices(samples, refractory_samples(sample_rate),
                                                0, 0, <<>>)
                      IN  [fn |-> "calculate_ecg_hr", pc |-> "ok", samples |-> samples,
                           sample_rate |-> sample_rate, peak_indices |-> peaks,
                           calculated_hr |-> HeartRate(peaks, sample_rate)]
    /\ UNCHANGED <<manifest, db, schema, folder, ext, scans, ingestVars>>

SpecEcg == InitEcg /\ [][calculate_ecg_hr]_vars

\* C25: any two consecutive detected peaks are more than w = floor(0.2 * sample_rate)
\* samples apart, for every sample sequence and every position of the first peak.
C25_PeaksAreARefractoryWindowApart ==
    call.fn = "calculate_ecg_hr" =>
        \A k \in 1..(Len(call.peak_indices) - 1) :
            call.peak_indices[k + 1] - call.peak_indices[k]
                > refractory_samples(call.sample_rate)

====
